---- MODULE Spec2Model ----
(***************************************************************************)
(* A model of pptx-toolkit's colour rewriting core.                        *)
(*                                                                         *)
(* Byte strings (the XML of one part) are sequences of symbols.  A symbol  *)
(* is either one of the characters the regular expressions of              *)
(* processor.go treat specially  < > : / " and white space, or a word: a   *)
(* maximal run of other characters (an element name, the literal val=, an  *)
(* attribute value).  The three patterns of processor.go are run over      *)
(* these sequences with Go's leftmost-first semantics.                     *)
(*                                                                         *)
(* SpecRewrite runs one of the three operations of processor.go, or the    *)
(* two passes ProcessPPTX applies, on one part.  SpecArchive runs          *)
(* ProcessPPTX of pptx.go on an extracted archive: the files are slash     *)
(* separated paths (strings), the relationship descriptors are sequences   *)
(* of Relationship entries, and the walk visits one file per step.         *)
(* SpecSwap puts runColorSwap (the swap command) in front of ProcessPPTX.  *)
(* SpecAnyOrder runs the walk function of ProcessPPTX on the files of a    *)
(* small archive in every order.  SpecVariants runs the operations of      *)
(* SpecRewrite on parts with look-alike element names and unusual tags.    *)
(* SpecSkipped runs ProcessPPTX on presentations whose slide list has      *)
(* entries that name no slide.                                             *)
(* SpecRename runs RenameColorScheme on an archive whose theme parts are    *)
(* strings.                                                                *)
(* SpecParse calls ParseColorMapping, ParseSlideRange or ValidateName on   *)
(* a string, whose characters are then the symbols.                        *)
(***************************************************************************)
EXTENDS Integers, Sequences, FiniteSets, TLC

VARIABLES
    doc,            \* the part being rewritten, as a sequence of items
    colorMapping,   \* the source -> target table handed to the rewriter
    op,             \* the operation that produced `result` ("none" before)
    result,         \* the bytes returned by the operation
    hexChoice,      \* the hexMapping ReplaceSrgbColors built from the table
    inputExists,    \* whether the input path names a file
    input,          \* the input archive: file entry name -> its bytes
    files,          \* the extracted archive: the set of relative file paths
    rels,           \* relationship descriptor path -> its Relationship entries
    sldIdLst,       \* presentation.xml: the relationship ids of the slide list
    fileContent,    \* file path -> its bytes
    themeFilter,    \* --theme: the theme names as the user wrote them
    scope,          \* --scope
    slides,         \* --slides: the requested visual slide numbers
    phase,          \* where the run is: "cmd" and "cmdReturn" in runColorSwap,
                    \* "idle", "walking", "done", "error" in ProcessPPTX
    xmlPatterns,    \* ProcessPPTX's local: the path prefixes of the scope
    masterToTheme,  \* ProcessPPTX's local: master file name -> theme file name
    layoutToMaster, \* ProcessPPTX's local: layout file name -> master file name
    slideFiles,     \* ProcessPPTX's local: the files of the requested slides
    walkPos,        \* the walk: index of the next file to visit
    visited,        \* the walk in any order: the files already visited
    written,        \* the files the walk wrote back
    filesProcessed, \* ProcessPPTX's counter
    err,            \* the error ProcessPPTX returns: its message, "" for nil
    output,         \* the output path: whether it was created, and the entries
                    \* written to it
    arg,            \* the string a parser or validator is called on, or the
                    \* new name given to RenameColorScheme
    fn,             \* the function that was called on `arg` ("none" before)
    ret             \* what it returned: its value, and its error ("" for nil)

rwVars == <<doc, op, result, hexChoice>>

\* what a run is given and never changes
givenVars == <<inputExists, input, files, rels, sldIdLst, themeFilter, slides>>

archVars == <<givenVars, fileContent, scope, phase,
              xmlPatterns, masterToTheme, layoutToMaster, slideFiles, walkPos,
              visited, written, filesProcessed, err, output>>

\* a call of one of the functions that take a string
callVars == <<arg, fn, ret>>

vars == <<rwVars, colorMapping, archVars, callVars>>

-----------------------------------------------------------------------------
(* Symbols *)

LT == "<"
GT == ">"
COLON == ":"
SLASH == "/"
QUOTE == "\""
SP == " "
VALEQ == "val="

Max(S) == CHOOSE x \in S : \A y \in S : y <= x
Min(S) == CHOOSE x \in S : \A y \in S : x <= y

\* The empty table.
EmptyMap == [x \in {} |-> ""]

-----------------------------------------------------------------------------
(* parser.go: the colour vocabulary *)

ValidSchemeColors ==
    {"dk1", "lt1", "dk2", "lt2", "accent1", "accent2", "accent3",
     "accent4", "accent5", "accent6", "hlink", "folHlink"}

\* The words of the model that are six hexadecimal digits.
HexWords == {"AABBCC", "aabbcc", "FF0000", "ff0000"}

HexDigits == "0123456789ABCDEFabcdef"

\* hexColorPattern ^[0-9A-Fa-f]{6}$
isValidHexColor(color) ==
    \/ color \in HexWords
    \/ /\ Len(color) = 6
       /\ \A i \in 1..6 : \E j \in 1..Len(HexDigits) :
              SubSeq(color, i, i) = SubSeq(HexDigits, j, j)

\* isValidColor knowing the scheme names only
isValidColor_SchemeOnly(color) == color \in ValidSchemeColors

isValidColor(color) == color \in ValidSchemeColors \/ isValidHexColor(color)

\* strings.ToUpper on the words of the model (only ever applied to hex words)
ToUpper(w) ==
    CASE w = "aabbcc" -> "AABBCC"
      [] w = "ff0000" -> "FF0000"
      [] OTHER -> w


-----------------------------------------------------------------------------
(* processor.go: the regular expressions, run over symbol sequences *)

\* The first index >= i of b whose symbol is in S, or Len(b) + 1.
RECURSIVE NextIn(_, _, _)
NextIn(b, i, S) ==
    IF i > Len(b) THEN Len(b) + 1
    ELSE IF b[i] \in S THEN i
    ELSE NextIn(b, i + 1, S)

\* The first index >= i of b whose symbol is not in S, or Len(b) + 1.
RECURSIVE NextNotIn(_, _, _)
NextNotIn(b, i, S) ==
    IF i > Len(b) THEN Len(b) + 1
    ELSE IF b[i] \notin S THEN i
    ELSE NextNotIn(b, i + 1, S)

\* `[^:>]*:?name` begun right after index i: the positions the literal
\* element name can take.
NameAt(b, i, name) ==
    LET r == NextIn(b, i + 1, {COLON, GT})
    IN  {n \in (i + 1)..(r - 1) : b[n] = name}
        \cup (IF r < Len(b) /\ b[r] = COLON /\ b[r + 1] = name
              THEN {r + 1} ELSE {})

\* `[^>]*\sval="` begun right after the name at n, then the value and its
\* closing quote: the positions the white space can take.  The value is
\* `[^"]+`, or `[0-9A-Fa-f]{6}` when hexOnly.
ValAt(b, n, hexOnly) ==
    LET g == NextIn(b, n + 1, {GT})
    IN  {k \in (n + 1)..(g - 1) :
            /\ k + 4 <= Len(b)
            /\ b[k] = SP /\ b[k + 1] = VALEQ /\ b[k + 2] = QUOTE
            /\ b[k + 3] # QUOTE
            /\ NextIn(b, k + 3, {QUOTE}) <= Len(b)
            /\ hexOnly => (isValidHexColor(b[k + 3]) /\ b[k + 4] = QUOTE)}

\* (<[^:>]*:?NAME[^>]*\sval=")(VALUE)(") anchored at i.  Greedy choices: the
\* last name position that lets the rest match, then the last val attribute
\* before the tag's '>'.  NoMatch, or
\* [s |-> match start, v |-> value start, q |-> closing quote, e |-> end + 1].
NoMatch == [s |-> 0]

PlainMatchAt(b, i, name, hexOnly) ==
    IF b[i] # LT THEN NoMatch
    ELSE LET ns == {n \in NameAt(b, i, name) : ValAt(b, n, hexOnly) # {}}
         IN  IF ns = {} THEN NoMatch
             ELSE LET k == Max(ValAt(b, Max(ns), hexOnly))
                      q == NextIn(b, k + 3, {QUOTE})
                  IN  [s |-> i, v |-> k + 3, q |-> q, e |-> q + 1]

\* pattern.FindAllSubmatchIndex(xmlContent, -1): successive non-overlapping
\* matches, each the leftmost one at or after the end of the previous.
RECURSIVE FindAllPlain(_, _, _, _)
FindAllPlain(b, pos, name, hexOnly) ==
    IF pos > Len(b) THEN <<>>
    ELSE IF b[pos] # LT \/ PlainMatchAt(b, pos, name, hexOnly).s = 0
    THEN FindAllPlain(b, pos + 1, name, hexOnly)
    ELSE <<PlainMatchAt(b, pos, name, hexOnly)>>
         \o FindAllPlain(b, PlainMatchAt(b, pos, name, hexOnly).e, name, hexOnly)

\* The closing tag </[^:>]*:?schemeClr> anchored at c: the index after it, or 0.
CloseTagEnd(b, c) ==
    IF c + 3 <= Len(b) /\ b[c] = LT /\ b[c + 1] = SLASH
    THEN LET ns == {n \in NameAt(b, c + 1, "schemeClr") :
                        n < Len(b) /\ b[n + 1] = GT}
         IN  IF ns = {} THEN 0 ELSE Max(ns) + 2
    ELSE 0

\* What follows the name at n in both alternatives of the whole-element
\* pattern: (\s+val=")([^"]+)(" ...   The index of `val=`, or 0.
ValFirst(b, n) ==
    LET w == NextNotIn(b, n + 1, {SP})
    IN  IF /\ w > n + 1 /\ w + 3 <= Len(b)
           /\ b[w] = VALEQ /\ b[w + 1] = QUOTE /\ b[w + 2] # QUOTE
           /\ NextIn(b, w + 2, {QUOTE}) <= Len(b)
        THEN w ELSE 0

\* The whole-element pattern of ReplaceSchemeColorsWithSrgb anchored at i:
\*   (<[^:>]*:?)(schemeClr)(\s+val=")([^"]+)("(?:[^>]*?))(/>)
\* | (<[^:>]*:?)(schemeClr)(\s+val=")([^"]+)("(?:[^>]*?))(>)([\s\S]*?</[^:>]*:?schemeClr>)
\* The first alternative is preferred at the same start.  NoMatch, or
\* [s, n (name), v (value start), q (closing quote), g (the tag's '>'),
\*  e (end + 1), self (first alternative)].
SelfAt(b, n) ==
    LET w == ValFirst(b, n)
        q == NextIn(b, w + 2, {QUOTE})
        g == NextIn(b, q + 1, {GT})
    IN  w # 0 /\ g <= Len(b) /\ g - 1 > q /\ b[g - 1] = SLASH

ContEnd(b, n) ==
    LET w == ValFirst(b, n)
        q == NextIn(b, w + 2, {QUOTE})
        g == NextIn(b, q + 1, {GT})
        cs == {c \in (g + 1)..Len(b) : CloseTagEnd(b, c) # 0}
    IN  IF w # 0 /\ g <= Len(b) /\ cs # {} THEN CloseTagEnd(b, Min(cs)) ELSE 0

ElemMatchAt(b, i) ==
    IF b[i] # LT THEN NoMatch
    ELSE LET cand == NameAt(b, i, "schemeClr")
             n1 == {n \in cand : SelfAt(b, n)}
             n2 == {n \in cand : ContEnd(b, n) # 0}
             n == IF n1 # {} THEN Max(n1) ELSE Max(n2)
             w == ValFirst(b, n)
             q == NextIn(b, w + 2, {QUOTE})
             g == NextIn(b, q + 1, {GT})
         IN  IF n1 = {} /\ n2 = {} THEN NoMatch
             ELSE [s |-> i, n |-> n, v |-> w + 2, q |-> q, g |-> g,
                   e |-> IF n1 # {} THEN g + 1 ELSE ContEnd(b, n),
                   self |-> n1 # {}]

RECURSIVE FindAllElem(_, _)
FindAllElem(b, pos) ==
    IF pos > Len(b) THEN <<>>
    ELSE IF b[pos] # LT \/ ElemMatchAt(b, pos).s = 0
    THEN FindAllElem(b, pos + 1)
    ELSE <<ElemMatchAt(b, pos)>> \o FindAllElem(b, ElemMatchAt(b, pos).e)

-----------------------------------------------------------------------------
(* processor.go: the three rewrite operations *)

\* string(xmlContent[match[4]:match[5]]) as a table key: a value of several
\* symbols equals no colour word.
ValueWord(b, m) == IF m.q = m.v + 1 THEN b[m.v] ELSE "?"

\* strings.Index(opening, name); prefix = opening[1:prefixEnd]
PrefixOf(opening, name) ==
    LET at == NextIn(opening, 1, {name})
    IN  IF at > 1 /\ at <= Len(opening) THEN SubSeq(opening, 2, at - 1) ELSE <<>>

\* SchemeLoop without the final "write remaining content".
RECURSIVE SchemeLoop_DropsTail(_, _, _, _)
SchemeLoop_DropsTail(b, M, ms, lastEnd) ==
    IF ms = <<>> THEN <<>>
    ELSE LET m == Head(ms)
             currentColor == ValueWord(b, m)
         IN  SubSeq(b, lastEnd, m.s - 1)
             \o SubSeq(b, m.s, m.v - 1)
             \o (IF currentColor \in DOMAIN M THEN <<M[currentColor]>>
                 ELSE SubSeq(b, m.v, m.q - 1))
             \o SubSeq(b, m.q, m.q)
             \o SchemeLoop_DropsTail(b, M, Tail(ms), m.e)

\* The loop of ReplaceSchemeColors over the matches ms, lastEnd being the
\* index of the first byte not yet written.
RECURSIVE SchemeLoop(_, _, _, _)
SchemeLoop(b, M, ms, lastEnd) ==
    IF ms = <<>> THEN SubSeq(b, lastEnd, Len(b))
    ELSE LET m == Head(ms)
             currentColor == ValueWord(b, m)
         IN  SubSeq(b, lastEnd, m.s - 1)
             \o SubSeq(b, m.s, m.v - 1)
             \o (IF currentColor \in DOMAIN M THEN <<M[currentColor]>>
                 ELSE SubSeq(b, m.v, m.q - 1))
             \o SubSeq(b, m.q, m.q)
             \o SchemeLoop(b, M, Tail(ms), m.e)

\* ReplaceSchemeColors returning nil, not its input, for an empty table.
ReplaceSchemeColors_NilOnEmpty(b, M) ==
    IF DOMAIN M = {} THEN <<>>
    ELSE LET matches == FindAllPlain(b, 1, "schemeClr", FALSE)
         IN  IF matches = <<>> THEN b ELSE SchemeLoop(b, M, matches, 1)

ReplaceSchemeColors(b, M) ==
    IF DOMAIN M = {} THEN b
    ELSE LET matches == FindAllPlain(b, 1, "schemeClr", FALSE)
         IN  IF matches = <<>> THEN b ELSE SchemeLoop(b, M, matches, 1)

\* The tables ReplaceSrgbColors can build from M: for source, target := range
\* colorMapping { hexMapping[ToUpper(source)] = target }.  Go ranges over a
\* map in an unspecified order, so when two hex sources differ only in letter
\* case either target can be the one that stays.
HexMappings(M) ==
    LET hexSources == {s \in DOMAIN M : isValidHexColor(s)}
        keys == {ToUpper(s) : s \in hexSources}
    IN  {hm \in [keys -> {M[s] : s \in hexSources}] :
            \A k \in keys : \E s \in hexSources : ToUpper(s) = k /\ hm[k] = M[s]}

\* SrgbLoop looking the value up as written, not in upper case.
RECURSIVE SrgbLoop_CaseSensitive(_, _, _, _)
SrgbLoop_CaseSensitive(b, hexMapping, ms, lastEnd) ==
    IF ms = <<>> THEN SubSeq(b, lastEnd, Len(b))
    ELSE LET m == Head(ms)
             currentHex == ValueWord(b, m)
             opening == SubSeq(b, m.s, m.v - 1)
         IN  SubSeq(b, lastEnd, m.s - 1)
             \o (IF currentHex \in DOMAIN hexMapping
                 THEN LET newColor == hexMapping[currentHex]
                      IN  IF isValidHexColor(newColor)
                          THEN opening \o <<ToUpper(newColor)>> \o SubSeq(b, m.q, m.q)
                          ELSE <<LT>> \o PrefixOf(opening, "srgbClr")
                               \o <<"schemeClr", SP, VALEQ, QUOTE, newColor, QUOTE>>
                 ELSE SubSeq(b, m.s, m.e - 1))
             \o SrgbLoop_CaseSensitive(b, hexMapping, Tail(ms), m.e)

RECURSIVE SrgbLoop(_, _, _, _)
SrgbLoop(b, hexMapping, ms, lastEnd) ==
    IF ms = <<>> THEN SubSeq(b, lastEnd, Len(b))
    ELSE LET m == Head(ms)
             currentHex == ToUpper(ValueWord(b, m))
             opening == SubSeq(b, m.s, m.v - 1)
         IN  SubSeq(b, lastEnd, m.s - 1)
             \o (IF currentHex \in DOMAIN hexMapping
                 THEN LET newColor == hexMapping[currentHex]
                      IN  IF isValidHexColor(newColor)
                          THEN opening \o <<ToUpper(newColor)>> \o SubSeq(b, m.q, m.q)
                          ELSE <<LT>> \o PrefixOf(opening, "srgbClr")
                               \o <<"schemeClr", SP, VALEQ, QUOTE, newColor, QUOTE>>
                 ELSE SubSeq(b, m.s, m.e - 1))
             \o SrgbLoop(b, hexMapping, Tail(ms), m.e)

\* ReplaceSrgbColors with hexMapping one of HexMappings(M).
ReplaceSrgbColors(b, M, hexMapping) ==
    IF DOMAIN M = {} THEN b
    ELSE IF DOMAIN hexMapping = {} THEN b
    ELSE LET matches == FindAllPlain(b, 1, "srgbClr", TRUE)
         IN  IF matches = <<>> THEN b ELSE SrgbLoop(b, hexMapping, matches, 1)

schemeToHexMapping(M) ==
    [s \in {x \in DOMAIN M : x \in ValidSchemeColors /\ isValidHexColor(M[x])}
        |-> ToUpper(M[s])]

schemeToSchemeMapping(M) ==
    [s \in {x \in DOMAIN M : x \in ValidSchemeColors /\ ~isValidHexColor(M[x])}
        |-> M[s]]

\* ElemLoop changing only the opening tag on a scheme -> hex conversion: the
\* children and the closing tag of a container stay.
RECURSIVE ElemLoop_KeepsChildren(_, _, _, _, _)
ElemLoop_KeepsChildren(b, toHex, toScheme, ms, lastEnd) ==
    IF ms = <<>> THEN SubSeq(b, lastEnd, Len(b))
    ELSE LET m == Head(ms)
             currentColor == ValueWord(b, m)
             prefix == SubSeq(b, m.s, m.n - 1)
             valOpening == SubSeq(b, m.n + 1, m.v - 1)
             closing == SubSeq(b, m.q, m.g)
             restOfElement == SubSeq(b, m.g + 1, m.e - 1)
         IN  SubSeq(b, lastEnd, m.s - 1)
             \o (IF currentColor \in DOMAIN toHex
                 THEN prefix \o <<"srgbClr", SP, VALEQ, QUOTE, toHex[currentColor]>>
                      \o closing \o (IF ~m.self THEN restOfElement ELSE <<>>)
                 ELSE IF currentColor \in DOMAIN toScheme
                 THEN prefix \o <<"schemeClr">> \o valOpening
                      \o <<toScheme[currentColor]>> \o closing
                      \o (IF ~m.self THEN restOfElement ELSE <<>>)
                 ELSE SubSeq(b, m.s, m.e - 1))
             \o ElemLoop_KeepsChildren(b, toHex, toScheme, Tail(ms), m.e)

RECURSIVE ElemLoop(_, _, _, _, _)
ElemLoop(b, toHex, toScheme, ms, lastEnd) ==
    IF ms = <<>> THEN SubSeq(b, lastEnd, Len(b))
    ELSE LET m == Head(ms)
             currentColor == ValueWord(b, m)
             prefix == SubSeq(b, m.s, m.n - 1)
             valOpening == SubSeq(b, m.n + 1, m.v - 1)
             closing == SubSeq(b, m.q, m.g)
             restOfElement == SubSeq(b, m.g + 1, m.e - 1)
         IN  SubSeq(b, lastEnd, m.s - 1)
             \o (IF currentColor \in DOMAIN toHex
                 THEN prefix \o <<"srgbClr", SP, VALEQ, QUOTE, toHex[currentColor],
                                  QUOTE, SLASH, GT>>
                 ELSE IF currentColor \in DOMAIN toScheme
                 THEN prefix \o <<"schemeClr">> \o valOpening
                      \o <<toScheme[currentColor]>> \o closing
                      \o (IF ~m.self THEN restOfElement ELSE <<>>)
                 ELSE SubSeq(b, m.s, m.e - 1))
             \o ElemLoop(b, toHex, toScheme, Tail(ms), m.e)

\* ReplaceSchemeColorsWithSrgb once the matches are found
ReplaceElems(b, toHex, toScheme, matches) ==
    IF matches = <<>> THEN b ELSE ElemLoop(b, toHex, toScheme, matches, 1)

ReplaceSchemeColorsWithSrgb(b, M) ==
    IF DOMAIN M = {} THEN b
    ELSE IF DOMAIN schemeToHexMapping(M) = {}
    THEN ReplaceSchemeColors(b, schemeToSchemeMapping(M))
    ELSE ReplaceElems(b, schemeToHexMapping(M), schemeToSchemeMapping(M),
                      FindAllElem(b, 1))

-----------------------------------------------------------------------------
(* The parts and tables the rewriter is run on *)

\* Bounds of the model.
MaxElems == 2
MaxMap == 2

SchemeVals == {"accent1", "accent2"}
HexVals == {"AABBCC", "aabbcc"}
Colors == SchemeVals \cup HexVals

\* The targets of the tables: a lower-case hex target among them.
Targets == {"accent1", "accent2", "AABBCC", "ff0000"}

\* An item of a part: a colour element as DrawingML writes it (val its only
\* attribute, double quotes), self-closing or a container holding a modifier
\* child; or bytes that are no colour element.
ColorItems ==
    [kind : {"elem"}, name : {"schemeClr"}, pfx : {"a"}, val : SchemeVals, shape : {"self"}]
    \cup [kind : {"elem"}, name : {"srgbClr"}, pfx : {"a"}, val : HexVals, shape : {"self"}]
    \cup [kind : {"elem"}, name : {"schemeClr"}, pfx : {"a", ""}, val : {"accent1"},
          shape : {"self", "cont"}]
    \cup [kind : {"elem"}, name : {"srgbClr"}, pfx : {"a", ""}, val : {"AABBCC"},
          shape : {"self", "cont"}]

OtherItems ==
    {[kind |-> "text", name |-> "", pfx |-> "", val |-> "accent1", shape |-> ""],
     [kind |-> "junk", name |-> "schemeClr", pfx |-> "", val |-> "accent1", shape |-> ""],
     [kind |-> "elem", name |-> "prstClr", pfx |-> "a", val |-> "accent1", shape |-> "self"]}

Items == ColorItems \cup OtherItems

Pfx(p) == IF p = "" THEN <<>> ELSE <<p, COLON>>

\* <a:lumMod val="75000"/>
Child == <<LT, "a", COLON, "lumMod", SP, VALEQ, QUOTE, "75000", QUOTE, SLASH, GT>>

\* The bytes of an item.  An element name that only contains schemeClr or
\* srgbClr is written as two symbols, the contained name being one of them.
Ser(it) ==
    CASE it.kind = "text" -> <<it.val>>
      [] it.kind = "junk" -> <<it.name, SP, VALEQ, QUOTE, it.val, QUOTE>>
      [] it.kind = "before" ->
            <<LT>> \o Pfx(it.pfx)
            \o <<"my", it.name, SP, VALEQ, QUOTE, it.val, QUOTE, SLASH, GT>>
      [] it.kind = "after" ->
            <<LT>> \o Pfx(it.pfx)
            \o <<it.name, "Ext", SP, VALEQ, QUOTE, it.val, QUOTE, SLASH, GT>>
      [] it.shape = "attr" ->
            <<LT>> \o Pfx(it.pfx)
            \o <<it.name, SP, "id=", QUOTE, "1", QUOTE, SP, VALEQ, QUOTE, it.val, QUOTE,
                 SLASH, GT>>
      [] it.shape = "open" ->
            <<LT>> \o Pfx(it.pfx) \o <<it.name, SP, VALEQ, QUOTE, it.val, QUOTE, GT>>
            \o Child
      [] OTHER ->
            <<LT>> \o Pfx(it.pfx) \o <<it.name, SP, VALEQ, QUOTE, it.val, QUOTE>>
            \o (IF it.shape = "self" THEN <<SLASH, GT>>
                ELSE <<GT>> \o Child \o <<LT, SLASH>> \o Pfx(it.pfx) \o <<it.name, GT>>)

RECURSIVE Bytes(_)
Bytes(d) == IF d = <<>> THEN <<>> ELSE Ser(Head(d)) \o Bytes(Tail(d))

xmlContent == Bytes(doc)

Docs == UNION {[1..n -> Items] : n \in 0..MaxElems}

Mappings ==
    UNION {[D -> Targets] : D \in {S \in SUBSET Colors : Cardinality(S) <= MaxMap}}

\* Elements as DrawingML does not write them but XML allows: an element whose
\* name only contains the name of a colour element (myschemeClr,
\* schemeClrExt), a colour element with an attribute before val, and a
\* container whose closing tag is missing.
LookAlikeItems ==
    [kind : {"before", "after"}, name : {"schemeClr"}, pfx : {"a", ""}, val : {"accent1"},
     shape : {"self"}]
    \cup [kind : {"before", "after"}, name : {"srgbClr"}, pfx : {"a", ""}, val : {"AABBCC"},
          shape : {"self"}]

OddShapeItems ==
    [kind : {"elem"}, name : {"schemeClr"}, pfx : {"a"}, val : {"accent1"},
     shape : {"attr", "open"}]

PlainItems ==
    {[kind |-> "elem", name |-> "schemeClr", pfx |-> "a", val |-> "accent1", shape |-> "self"],
     [kind |-> "elem", name |-> "schemeClr", pfx |-> "a", val |-> "accent2", shape |-> "self"],
     [kind |-> "elem", name |-> "schemeClr", pfx |-> "", val |-> "accent1", shape |-> "cont"],
     [kind |-> "elem", name |-> "srgbClr", pfx |-> "a", val |-> "AABBCC", shape |-> "self"],
     [kind |-> "elem", name |-> "srgbClr", pfx |-> "", val |-> "AABBCC", shape |-> "cont"]}

VariantItems == LookAlikeItems \cup OddShapeItems \cup PlainItems

VariantDocs == UNION {[1..n -> VariantItems] : n \in 0..MaxElems}

-----------------------------------------------------------------------------
(* The rewriter run on one part *)

\* No archive is open while a single part is rewritten.
NoOutput == [created |-> FALSE, parts |-> EmptyMap]

\* No function has been called on a string.
NoReturn == [value |-> <<>>, err |-> ""]

NoCall ==
    /\ arg = ""
    /\ fn = "none"
    /\ ret = NoReturn

NoArchive ==
    /\ inputExists = FALSE
    /\ input = EmptyMap
    /\ visited = {}
    /\ err = ""
    /\ output = NoOutput
    /\ files = {}
    /\ rels = EmptyMap
    /\ sldIdLst = <<>>
    /\ fileContent = EmptyMap
    /\ themeFilter = <<>>
    /\ scope = "all"
    /\ slides = <<>>
    /\ phase = "idle"
    /\ xmlPatterns = <<>>
    /\ masterToTheme = EmptyMap
    /\ layoutToMaster = EmptyMap
    /\ slideFiles = {}
    /\ walkPos = 0
    /\ written = {}
    /\ filesProcessed = 0

InitRewrite ==
    /\ doc \in Docs
    /\ colorMapping \in Mappings
    /\ op = "none"
    /\ result = <<>>
    /\ hexChoice = EmptyMap
    /\ NoArchive
    /\ NoCall

DoReplaceSchemeColors ==
    /\ op = "none"
    /\ op' = "ReplaceSchemeColors"
    /\ result' = ReplaceSchemeColors(xmlContent, colorMapping)
    /\ UNCHANGED <<doc, callVars, colorMapping, hexChoice, archVars>>

DoReplaceSrgbColors ==
    /\ op = "none"
    /\ \E hm \in HexMappings(colorMapping) :
          /\ hexChoice' = hm
          /\ result' = ReplaceSrgbColors(xmlContent, colorMapping, hm)
    /\ op' = "ReplaceSrgbColors"
    /\ UNCHANGED <<doc, callVars, colorMapping, archVars>>

DoReplaceSchemeColorsWithSrgb ==
    /\ op = "none"
    /\ op' = "ReplaceSchemeColorsWithSrgb"
    /\ result' = ReplaceSchemeColorsWithSrgb(xmlContent, colorMapping)
    /\ UNCHANGED <<doc, callVars, colorMapping, hexChoice, archVars>>

\* pptx.go: the two passes ProcessPPTX applies to the content of a part.
RewritePart(content, M, hm) ==
    ReplaceSrgbColors(ReplaceSchemeColorsWithSrgb(content, M), M, hm)

DoRewritePart ==
    /\ op = "none"
    /\ \E hm \in HexMappings(colorMapping) :
          /\ hexChoice' = hm
          /\ result' = RewritePart(xmlContent, colorMapping, hm)
    /\ op' = "RewritePart"
    /\ UNCHANGED <<doc, callVars, colorMapping, archVars>>

NextRewrite ==
    \/ DoReplaceSchemeColors
    \/ DoReplaceSrgbColors
    \/ DoReplaceSchemeColorsWithSrgb
    \/ DoRewritePart

SpecRewrite == InitRewrite /\ [][NextRewrite]_vars

\* The same operations on parts that hold the unusual elements.
InitVariants ==
    /\ doc \in VariantDocs
    /\ colorMapping \in Mappings
    /\ op = "none"
    /\ result = <<>>
    /\ hexChoice = EmptyMap
    /\ NoArchive
    /\ NoCall

SpecVariants == InitVariants /\ [][NextRewrite]_vars

-----------------------------------------------------------------------------
(* Paths and strings: the library calls pptx.go makes on them *)

\* strings.HasPrefix, strings.HasSuffix, strings.TrimSuffix
HasPrefix(s, prefix) == Len(s) >= Len(prefix) /\ SubSeq(s, 1, Len(prefix)) = prefix

HasSuffix(s, suffix) ==
    Len(s) >= Len(suffix) /\ SubSeq(s, Len(s) - Len(suffix) + 1, Len(s)) = suffix

TrimSuffix(s, suffix) ==
    IF HasSuffix(s, suffix) THEN SubSeq(s, 1, Len(s) - Len(suffix)) ELSE s

LastSlash(p) == Max({0} \cup {i \in 1..Len(p) : SubSeq(p, i, i) = "/"})

\* filepath.Base, filepath.Dir
Base(p) == SubSeq(p, LastSlash(p) + 1, Len(p))

Dir(p) == IF LastSlash(p) = 0 THEN "." ELSE SubSeq(p, 1, LastSlash(p) - 1)

RECURSIVE Split(_)
Split(p) ==
    LET cuts == {i \in 1..Len(p) : SubSeq(p, i, i) = "/"}
    IN  IF cuts = {} THEN <<p>>
        ELSE <<SubSeq(p, 1, Min(cuts) - 1)>> \o Split(SubSeq(p, Min(cuts) + 1, Len(p)))

RECURSIVE CleanSegs(_, _)
CleanSegs(segs, acc) ==
    IF segs = <<>> THEN acc
    ELSE IF Head(segs) \in {"", "."} THEN CleanSegs(Tail(segs), acc)
    ELSE IF Head(segs) = ".." /\ acc # <<>> /\ acc[Len(acc)] # ".."
         THEN CleanSegs(Tail(segs), SubSeq(acc, 1, Len(acc) - 1))
    ELSE CleanSegs(Tail(segs), Append(acc, Head(segs)))

RECURSIVE JoinSegs(_)
JoinSegs(segs) ==
    IF segs = <<>> THEN "."
    ELSE IF Len(segs) = 1 THEN segs[1]
    ELSE segs[1] \o "/" \o JoinSegs(Tail(segs))

\* filepath.Clean, filepath.Join (of relative, slash-separated paths)
Clean(p) == JoinSegs(CleanSegs(Split(p), <<>>))

Join(a, b) == Clean(a \o "/" \o b)

\* part_001 (slides): resolveRelativePath
resolveRelativePath(basePath, target) == Clean(Join(Dir(basePath), target))

\* filepath.Glob(dir/prefix*suffix) over the extracted files
Glob(dir, prefix, suffix) ==
    {f \in files : /\ Dir(f) = dir
                   /\ Len(Base(f)) >= Len(prefix) + Len(suffix)
                   /\ HasPrefix(Base(f), prefix)
                   /\ HasSuffix(Base(f), suffix)}

-----------------------------------------------------------------------------
(* Relationship descriptors *)

RelNS == "http://schemas.openxmlformats.org/officeDocument/2006/relationships"

Rel(id, kind, target) == [Id |-> id, Type |-> RelNS \o "/" \o kind, Target |-> target]

\* xmlquery.FindOne(doc, "//Relationship[@Type='...']"): the index of the
\* first entry of that type, 0 when there is none.
FindOne(rs, type) ==
    LET I == {i \in 1..Len(rs) : rs[i].Type = type}
    IN  IF I = {} THEN 0 ELSE Min(I)

\* the descriptor that belongs to a part: <dir>/_rels/<name>.rels
RelsFileOf(path) == Join(Join(Dir(path), "_rels"), Base(path) \o ".rels")

\* pptx.go: buildThemeRelationships
buildThemeRelationships ==
    LET relsDir == Join(Join("ppt", "slideMasters"), "_rels")
        found == {f \in Glob(relsDir, "slideMaster", ".xml.rels") :
                     FindOne(rels[f], RelNS \o "/theme") # 0}
        masterName(f) == TrimSuffix(Base(f), ".rels")
    IN  [m \in {masterName(f) : f \in found} |->
            LET f == CHOOSE g \in found : masterName(g) = m
            IN  Base(rels[f][FindOne(rels[f], RelNS \o "/theme")].Target)]

\* pptx.go: buildLayoutToMasterMapping
buildLayoutToMasterMapping ==
    LET relsDir == Join(Join("ppt", "slideLayouts"), "_rels")
        found == {f \in Glob(relsDir, "slideLayout", ".xml.rels") :
                     FindOne(rels[f], RelNS \o "/slideMaster") # 0}
        layoutName(f) == TrimSuffix(Base(f), ".rels")
    IN  [l \in {layoutName(f) : f \in found} |->
            LET f == CHOOSE g \in found : layoutName(g) = l
            IN  Base(rels[f][FindOne(rels[f], RelNS \o "/slideMaster")].Target)]

\* getSlideTheme answering with the master when the master has no theme.
getSlideTheme_ReturnsMaster(slidePath, l2m, m2t) ==
    LET relsFile == RelsFileOf(slidePath)
    IN  IF relsFile \notin files THEN ""
        ELSE LET n == FindOne(rels[relsFile], RelNS \o "/slideLayout")
             IN  IF n = 0 THEN ""
                 ELSE LET layoutName == Base(rels[relsFile][n].Target)
                      IN  IF layoutName \notin DOMAIN l2m THEN ""
                          ELSE IF l2m[layoutName] \notin DOMAIN m2t THEN l2m[layoutName]
                          ELSE m2t[l2m[layoutName]]

\* pptx.go: getSlideTheme; "" when any link of the chain is missing
getSlideTheme(slidePath, l2m, m2t) ==
    LET relsFile == RelsFileOf(slidePath)
    IN  IF relsFile \notin files THEN ""
        ELSE LET n == FindOne(rels[relsFile], RelNS \o "/slideLayout")
             IN  IF n = 0 THEN ""
                 ELSE LET layoutName == Base(rels[relsFile][n].Target)
                      IN  IF layoutName \notin DOMAIN l2m THEN ""
                          ELSE IF l2m[layoutName] \notin DOMAIN m2t THEN ""
                          ELSE m2t[l2m[layoutName]]

\* the filter with every entry carrying the .xml extension
themeFiles(tf) ==
    [i \in 1..Len(tf) |-> IF HasSuffix(tf[i], ".xml") THEN tf[i] ELSE tf[i] \o ".xml"]

InFilter(theme, tfs) == \E i \in 1..Len(tfs) : tfs[i] = theme

\* shouldProcessFile turning away a slide, layout or master whose theme does
\* not resolve, where the code lets it fall through to the default.
shouldProcessFile_ExcludesUnresolved(relPath, tf, l2m, m2t) ==
    IF Len(tf) = 0 THEN TRUE
    ELSE IF HasPrefix(relPath, "ppt/slides/slide")
         THEN /\ getSlideTheme(relPath, l2m, m2t) # ""
              /\ InFilter(getSlideTheme(relPath, l2m, m2t), themeFiles(tf))
    ELSE IF HasPrefix(relPath, "ppt/slideLayouts/slideLayout")
         THEN /\ Base(relPath) \in DOMAIN l2m
              /\ l2m[Base(relPath)] \in DOMAIN m2t
              /\ InFilter(m2t[l2m[Base(relPath)]], themeFiles(tf))
    ELSE IF HasPrefix(relPath, "ppt/slideMasters/slideMaster")
         THEN /\ Base(relPath) \in DOMAIN m2t
              /\ InFilter(m2t[Base(relPath)], themeFiles(tf))
    ELSE TRUE

\* shouldProcessFile with a default that turns away what is no slide, layout
\* or master.
shouldProcessFile_DefaultExcludes(relPath, tf, l2m, m2t) ==
    IF Len(tf) = 0 THEN TRUE
    ELSE IF HasPrefix(relPath, "ppt/slides/slide")
            /\ getSlideTheme(relPath, l2m, m2t) # ""
         THEN InFilter(getSlideTheme(relPath, l2m, m2t), themeFiles(tf))
    ELSE IF HasPrefix(relPath, "ppt/slideLayouts/slideLayout")
            /\ Base(relPath) \in DOMAIN l2m
            /\ l2m[Base(relPath)] \in DOMAIN m2t
         THEN InFilter(m2t[l2m[Base(relPath)]], themeFiles(tf))
    ELSE IF HasPrefix(relPath, "ppt/slideMasters/slideMaster")
            /\ Base(relPath) \in DOMAIN m2t
         THEN InFilter(m2t[Base(relPath)], themeFiles(tf))
    ELSE \/ HasPrefix(relPath, "ppt/slides/slide")
         \/ HasPrefix(relPath, "ppt/slideLayouts/slideLayout")
         \/ HasPrefix(relPath, "ppt/slideMasters/slideMaster")

\* pptx.go: shouldProcessFile
shouldProcessFile(relPath, tf, l2m, m2t) ==
    IF Len(tf) = 0 THEN TRUE
    ELSE IF HasPrefix(relPath, "ppt/slides/slide")
            /\ getSlideTheme(relPath, l2m, m2t) # ""
         THEN InFilter(getSlideTheme(relPath, l2m, m2t), themeFiles(tf))
    ELSE IF HasPrefix(relPath, "ppt/slideLayouts/slideLayout")
            /\ Base(relPath) \in DOMAIN l2m
            /\ l2m[Base(relPath)] \in DOMAIN m2t
         THEN InFilter(m2t[l2m[Base(relPath)]], themeFiles(tf))
    ELSE IF HasPrefix(relPath, "ppt/slideMasters/slideMaster")
            /\ Base(relPath) \in DOMAIN m2t
         THEN InFilter(m2t[Base(relPath)], themeFiles(tf))
    ELSE TRUE

\* the byte order of the characters of the names of the model
CharOrder == "-.0123456789ABCDEFGHIJKLMNOPQRSTUVWXYZ_abcdefghijklmnopqrstuvwxyz"

CharRank(c) == CHOOSE i \in 1..Len(CharOrder) : SubSeq(CharOrder, i, i) = c

\* Go's a < b on strings, from character i on
RECURSIVE LessFrom(_, _, _)
LessFrom(a, b, i) ==
    IF i > Len(b) THEN FALSE
    ELSE IF i > Len(a) THEN TRUE
    ELSE IF SubSeq(a, i, i) = SubSeq(b, i, i) THEN LessFrom(a, b, i + 1)
    ELSE CharRank(SubSeq(a, i, i)) < CharRank(SubSeq(b, i, i))

StrLess(a, b) == LessFrom(a, b, 1)

\* strings.Join
RECURSIVE JoinStrings(_, _)
JoinStrings(elems, sep) ==
    IF elems = <<>> THEN ""
    ELSE IF Len(elems) = 1 THEN elems[1]
    ELSE elems[1] \o sep \o JoinStrings(Tail(elems), sep)

\* the orders in which ranging over a Go map (or set) may yield its keys
KeyOrders(S) == {a \in [1..Cardinality(S) -> S] : {a[i] : i \in DOMAIN a} = S}

\* pptx.go: validateThemeFilter, the exchange sort of the available themes
RECURSIVE SortInner(_, _, _)
SortInner(a, i, j) ==
    IF j > Len(a) THEN a
    ELSE IF StrLess(a[j], a[i])
    THEN SortInner([a EXCEPT ![i] = a[j], ![j] = a[i]], i, j + 1)
    ELSE SortInner(a, i, j + 1)

RECURSIVE SortOuter(_, _)
SortOuter(a, i) ==
    IF i >= Len(a) THEN a ELSE SortOuter(SortInner(a, i, i + 1), i + 1)

SortStrings(a) == SortOuter(a, 1)

\* pptx.go: validateThemeFilter; TRUE when every requested theme exists
validateThemeFilter(tf, m2t) ==
    LET availableThemes ==
            {m2t[m] : m \in DOMAIN m2t} \cup {TrimSuffix(m2t[m], ".xml") : m \in DOMAIN m2t}
        notFound == {i \in 1..Len(tf) : /\ tf[i] \notin availableThemes
                                        /\ TrimSuffix(tf[i], ".xml") \notin availableThemes}
    IN  Len(tf) = 0 \/ notFound = {}

\* pptx.go: validateThemeFilter, the entries of the filter it reports
themeFilterNotFound(tf, m2t) ==
    LET availableThemes ==
            {m2t[m] : m \in DOMAIN m2t} \cup {TrimSuffix(m2t[m], ".xml") : m \in DOMAIN m2t}
    IN  SelectSeq(tf, LAMBDA t : /\ t \notin availableThemes
                                 /\ TrimSuffix(t, ".xml") \notin availableThemes)

\* pptx.go: validateThemeFilter, the error it returns when an entry is not
\* found, for each order in which the map of themes may be ranged over
themeFilterErrors(tf, m2t) ==
    LET uniqueThemes == {TrimSuffix(m2t[m], ".xml") : m \in DOMAIN m2t}
    IN  {"theme(s) not found: " \o JoinStrings(themeFilterNotFound(tf, m2t), ", ")
            \o "\nAvailable themes: " \o JoinStrings(SortStrings(available), ", ")
         : available \in KeyOrders(uniqueThemes)}

\* pptx.go: Scope, ValidScopes, validateScope
ScopeAll == "all"
ScopeContent == "content"
ScopeMaster == "master"

ValidScopes == {ScopeAll, ScopeContent, ScopeMaster}

validateScope(sc) == sc \in ValidScopes

\* pptx.go: validateScope, the error for a value that is no scope
scopeErrors(sc) ==
    {"invalid scope '" \o sc \o "'. Valid values: " \o JoinStrings(SortStrings(validList), ", ")
     : validList \in KeyOrders(ValidScopes)}

\* pptx.go: getXMLPatterns
contentPatterns == <<"ppt/slides/", "ppt/charts/", "ppt/diagrams/", "ppt/notesSlides/">>

masterPatterns ==
    <<"ppt/slideMasters/", "ppt/slideLayouts/", "ppt/notesMasters/", "ppt/handoutMasters/">>

\* getXMLPatterns with the slide masters among the content patterns.
getXMLPatterns_ContentHasMasters(sc) ==
    CASE sc = ScopeContent -> contentPatterns \o <<"ppt/slideMasters/">>
      [] sc = ScopeMaster  -> masterPatterns
      [] OTHER             -> contentPatterns \o masterPatterns

getXMLPatterns(sc) ==
    CASE sc = ScopeContent -> contentPatterns
      [] sc = ScopeMaster  -> masterPatterns
      [] OTHER             -> contentPatterns \o masterPatterns

\* pptx.go, the walk: some pattern is a prefix of the path
MatchesPatterns(relPath, patterns) ==
    \E i \in 1..Len(patterns) : HasPrefix(relPath, patterns[i])

-----------------------------------------------------------------------------
(* Slides: the visual order and the files of a slide *)

PresentationRels == "ppt/_rels/presentation.xml.rels"

\* part_001 (slides): BuildSlideMapping: visual slide number -> file path, for the
\* entries of the slide list whose relationship has a target
BuildSlideMapping ==
    LET rs == rels[PresentationRels]
        hit(i) == {j \in 1..Len(rs) : rs[j].Id = sldIdLst[i]}
        ok == {i \in 1..Len(sldIdLst) :
                  /\ sldIdLst[i] # ""
                  /\ hit(i) # {}
                  /\ rs[Min(hit(i))].Target # ""}
    IN  [i \in ok |-> Join("ppt", rs[Min(hit(i))].Target)]

\* part_001 (slides): ValidateSlideNumbers; TRUE when no requested number is invalid
ValidateSlideNumbers(slideNums) ==
    LET totalSlides == Cardinality(DOMAIN BuildSlideMapping)
    IN  Len(slideNums) = 0 \/ \A i \in 1..Len(slideNums) : ~(slideNums[i] > totalSlides)

\* ValidateSlideNumbers reporting the first invalid number only.
slideNumbersError_FirstOnly(slideNums) ==
    LET totalSlides == Cardinality(DOMAIN BuildSlideMapping)
        invalid == SelectSeq(slideNums, LAMBDA n : n > totalSlides)
    IN  "slide " \o ToString(invalid[1]) \o " does not exist (presentation has "
            \o ToString(totalSlides) \o " slides)"

\* part_001 (slides): ValidateSlideNumbers, the error naming the invalid numbers
slideNumbersError(slideNums) ==
    LET totalSlides == Cardinality(DOMAIN BuildSlideMapping)
        invalid == SelectSeq(slideNums, LAMBDA n : n > totalSlides)
    IN  IF Len(invalid) = 1
        THEN "slide " \o ToString(invalid[1]) \o " does not exist (presentation has "
                 \o ToString(totalSlides) \o " slides)"
        ELSE "slides " \o JoinStrings([i \in 1..Len(invalid) |-> ToString(invalid[i])], ", ")
                 \o " do not exist (presentation has " \o ToString(totalSlides) \o " slides)"

diagramTypes ==
    {"/diagramData", "/diagramLayout", "/diagramColors", "/diagramQuickStyle",
     "/diagramDrawing"}

\* GetSlideContent adding every sub-part of a chart, the embedded payload
\* included.
ChartFiles_KeepsPayload(slidePath, target) ==
    LET chartPath == resolveRelativePath(slidePath, target)
        chartRels == RelsFileOf(chartPath)
        subs == IF chartRels \in files
                THEN {resolveRelativePath(chartPath, rels[chartRels][j].Target) :
                         j \in {k \in 1..Len(rels[chartRels]) : rels[chartRels][k].Target # ""}}
                ELSE {}
    IN  {chartPath} \cup subs

\* part_001 (slides): GetSlideContent, the files a chart relationship adds
ChartFiles(slidePath, target) ==
    LET chartPath == resolveRelativePath(slidePath, target)
        chartRels == RelsFileOf(chartPath)
        subs == IF chartRels \in files
                THEN {resolveRelativePath(chartPath, rels[chartRels][j].Target) :
                         j \in {k \in 1..Len(rels[chartRels]) : rels[chartRels][k].Target # ""}}
                ELSE {}
    IN  {chartPath} \cup {s \in subs : HasSuffix(s, ".xml")}

\* part_001 (slides): GetSlideContent, the files one relationship of a slide adds
RelFiles(slidePath, rel) ==
    IF rel.Target = "" THEN {}
    ELSE (IF HasSuffix(rel.Type, "/chart") THEN ChartFiles(slidePath, rel.Target) ELSE {})
         \cup (IF \E d \in diagramTypes : HasSuffix(rel.Type, d)
               THEN {resolveRelativePath(slidePath, rel.Target)} ELSE {})
         \cup (IF HasSuffix(rel.Type, "/notesSlide")
               THEN {resolveRelativePath(slidePath, rel.Target)} ELSE {})

\* part_001 (slides): GetSlideContent
GetSlideContent(slideNums) ==
    LET slideMapping == BuildSlideMapping
        requested == {slideNums[i] : i \in 1..Len(slideNums)} \cap DOMAIN slideMapping
        of(n) ==
            LET slidePath == slideMapping[n]
                relsPath == RelsFileOf(slidePath)
            IN  {slidePath} \cup
                (IF relsPath \in files
                 THEN UNION {RelFiles(slidePath, rels[relsPath][j]) :
                                j \in 1..Len(rels[relsPath])}
                 ELSE {})
    IN  UNION {of(n) : n \in requested}

-----------------------------------------------------------------------------
(* The archives and the command lines ProcessPPTX is run on *)

MaxSlides == 2

SlidePath(n) == "ppt/slides/slide" \o ToString(n) \o ".xml"

SlideRelsPath(n) == "ppt/slides/_rels/slide" \o ToString(n) \o ".xml.rels"

LayoutRelsPath(n) == "ppt/slideLayouts/_rels/slideLayout" \o ToString(n) \o ".xml.rels"

MasterRelsPath(n) == "ppt/slideMasters/_rels/slideMaster" \o ToString(n) \o ".xml.rels"

\* what a slide embeds: slide 1 a chart, slide 2 a diagram and notes
SlideEmbeds(n) ==
    CASE n = 1 -> <<Rel("rId2", "chart", "../charts/chart1.xml")>>
      [] n = 2 -> <<Rel("rId2", "diagramData", "../diagrams/data1.xml"),
                    Rel("rId3", "diagramColors", "../diagrams/colors1.xml"),
                    Rel("rId4", "notesSlide", "../notesSlides/notesSlide1.xml"),
                    Rel("rId5", "diagramLayout", "../diagrams/layout1.xml"),
                    Rel("rId6", "diagramQuickStyle", "../diagrams/quickStyle1.xml"),
                    Rel("rId7", "diagramDrawing", "../diagrams/drawing1.xml")>>
      [] OTHER -> <<>>

\* the descriptor of slide n: one naming a layout; for slide 1 also none (the
\* empty sequence) and one without a slideLayout link
SlideRelChoices(n) ==
    (IF n = 1 THEN {<<>>, SlideEmbeds(n)} ELSE {})
    \cup {<<Rel("rId1", "slideLayout", "../slideLayouts/slideLayout" \o ToString(k) \o ".xml")>>
              \o SlideEmbeds(n) : k \in 1..2}

ChartRels ==
    <<Rel("rId1", "chartStyle", "style1.xml"),
      Rel("rId2", "chartColorStyle", "colors1.xml"),
      Rel("rId3", "package", "../embeddings/sheet1.xlsx")>>

PresentationRelsOf(order) ==
    [i \in 1..MaxSlides |->
        Rel("rId" \o ToString(i + 1), "slide", "slides/slide" \o ToString(order[i]) \o ".xml")]

\* the files every archive of the model holds, in the order of a walk
Before ==
    <<"[Content_Types].xml", "docProps/app.xml", PresentationRels,
      "ppt/charts/_rels/chart1.xml.rels", "ppt/charts/chart1.xml",
      "ppt/charts/chart2.xml", "ppt/charts/colors1.xml", "ppt/charts/style1.xml",
      "ppt/diagrams/colors1.xml", "ppt/diagrams/data1.xml", "ppt/diagrams/drawing1.xml",
      "ppt/diagrams/layout1.xml", "ppt/diagrams/quickStyle1.xml",
      "ppt/embeddings/sheet1.xlsx", "ppt/handoutMasters/handoutMaster1.xml",
      "ppt/media/image1.png", "ppt/notesMasters/notesMaster1.xml",
      "ppt/notesSlides/notesSlide1.xml", "ppt/presentation.xml">>

Layouts ==
    <<LayoutRelsPath(1), LayoutRelsPath(2),
      "ppt/slideLayouts/slideLayout1.xml", "ppt/slideLayouts/slideLayout2.xml">>

Masters ==
    <<MasterRelsPath(1), MasterRelsPath(2),
      "ppt/slideMasters/slideMaster1.xml", "ppt/slideMasters/slideMaster2.xml">>

After == <<"ppt/theme/theme1.xml", "ppt/theme/theme2.xml">>

AllFiles ==
    Before \o Layouts \o Masters
    \o [n \in 1..MaxSlides |-> SlideRelsPath(n)]
    \o [n \in 1..MaxSlides |-> SlidePath(n)]
    \o After

\* filepath.Walk visits the files in lexical order
WalkOrder == SelectSeq(AllFiles, LAMBDA f : f \in files)

Range(f) == {f[x] : x \in DOMAIN f}

\* the bytes of the XML parts of the model: one scheme-colour element,
\* accent1 in most parts and accent2 in PlainParts
PartBytes == Bytes(<<[kind |-> "elem", name |-> "schemeClr", pfx |-> "a",
                      val |-> "accent1", shape |-> "self"]>>)

PlainBytes == Bytes(<<[kind |-> "elem", name |-> "schemeClr", pfx |-> "a",
                       val |-> "accent2", shape |-> "self"]>>)

PlainParts ==
    {"ppt/charts/style1.xml", "ppt/diagrams/colors1.xml",
     "ppt/slideLayouts/slideLayout2.xml", "ppt/notesMasters/notesMaster1.xml"}

\* the bytes of a file entry; what is no XML part is one opaque word
ContentOf(f) ==
    IF ~HasSuffix(f, ".xml") THEN <<f>>
    ELSE IF f \in PlainParts THEN PlainBytes
    ELSE PartBytes

SlideOrders == {[i \in 1..MaxSlides |-> i], [i \in 1..MaxSlides |-> MaxSlides + 1 - i]}

\* the archives: the visual order of the slides, the descriptor of every
\* slide, the master of the two layouts and the theme of the first master
Archives ==
    {a \in [order : SlideOrders,
            srel : [1..MaxSlides -> UNION {SlideRelChoices(n) : n \in 1..MaxSlides}],
            l1 : {"slideMaster1.xml", ""},
            l2 : {"slideMaster2.xml", "slideMaster3.xml"},
            t1 : {"theme1.xml", ""}] :
        \A n \in 1..MaxSlides : a.srel[n] \in SlideRelChoices(n)}

ArchiveFiles(a) ==
    Range(AllFiles) \ {SlideRelsPath(n) : n \in {m \in 1..MaxSlides : a.srel[m] = <<>>}}

ArchiveRels(a) ==
    [f \in {g \in ArchiveFiles(a) : HasSuffix(g, ".rels")} |->
        CASE f = PresentationRels -> PresentationRelsOf(a.order)
          [] f = "ppt/charts/_rels/chart1.xml.rels" -> ChartRels
          [] f = LayoutRelsPath(1) ->
                IF a.l1 = "" THEN <<>>
                ELSE <<Rel("rId1", "slideMaster", "../slideMasters/" \o a.l1)>>
          [] f = LayoutRelsPath(2) ->
                <<Rel("rId1", "slideMaster", "../slideMasters/" \o a.l2)>>
          [] f = MasterRelsPath(1) ->
                IF a.t1 = "" THEN <<Rel("rId1", "slideLayout", "../slideLayouts/slideLayout1.xml")>>
                ELSE <<Rel("rId1", "slideLayout", "../slideLayouts/slideLayout1.xml"),
                       Rel("rId2", "theme", "../theme/" \o a.t1)>>
          [] f = MasterRelsPath(2) ->
                <<Rel("rId1", "theme", "../theme/theme2.xml")>>
          [] OTHER ->
                a.srel[CHOOSE n \in 1..MaxSlides : f = SlideRelsPath(n)]]

ThemeFilters ==
    {<<>>, <<"theme1">>, <<"theme2.xml">>, <<"theme3">>, <<"theme1.xml.xml">>,
     <<"theme9", "theme1", "theme3.xml">>}

SlideFilters ==
    {<<>>, <<1>>, <<1, 2>>, <<MaxSlides + 1>>, <<1, MaxSlides + 1, MaxSlides + 2>>}

\* the scope values a caller may pass
ScopeValues == ValidScopes \cup {"invalid"}

inputPath == "input.pptx"

\* the input of a run: one of the archives as, or a path that names no file
Given(as) ==
    \/ \E a \in as :
          /\ inputExists = TRUE
          /\ files = ArchiveFiles(a)
          /\ rels = ArchiveRels(a)
          /\ sldIdLst = [i \in 1..MaxSlides |-> "rId" \o ToString(i + 1)]
          /\ input = [f \in ArchiveFiles(a) |-> ContentOf(f)]
    \/ /\ inputExists = FALSE
       /\ files = {}
       /\ rels = EmptyMap
       /\ sldIdLst = <<>>
       /\ input = EmptyMap

\* nothing has run yet; the run is at ph
NotStarted(ph) ==
    /\ fileContent = input
    /\ phase = ph
    /\ xmlPatterns = <<>>
    /\ masterToTheme = EmptyMap
    /\ layoutToMaster = EmptyMap
    /\ slideFiles = {}
    /\ walkPos = 0
    /\ visited = {}
    /\ written = {}
    /\ filesProcessed = 0
    /\ err = ""
    /\ output = NoOutput
    /\ doc = <<>>
    /\ op = "none"
    /\ result = <<>>
    /\ hexChoice = EmptyMap
    /\ NoCall

InitArchive ==
    /\ Given(Archives)
    /\ colorMapping \in {[c \in {"accent1"} |-> "accent2"]}
    /\ themeFilter \in ThemeFilters
    /\ scope \in ScopeValues
    /\ slides \in SlideFilters
    /\ NotStarted("idle")

-----------------------------------------------------------------------------
(* ProcessPPTX *)

\* the slide filter of ProcessPPTX: with a filter, only the files of the
\* requested slides pass
slideGate(relPath, slideNums, sf) == Len(slideNums) = 0 \/ relPath \in sf

\* the walk function without its call of shouldProcessFile
walkAccepts_SkipsThemeCheck(relPath, patterns, tf, l2m, m2t) ==
    /\ HasSuffix(relPath, ".xml")
    /\ MatchesPatterns(relPath, patterns)

\* pptx.go, the walk function: the checks a file passes before it is read
walkAccepts(relPath, patterns, tf, l2m, m2t) ==
    /\ HasSuffix(relPath, ".xml")
    /\ MatchesPatterns(relPath, patterns)
    /\ shouldProcessFile(relPath, tf, l2m, m2t)

\* the validations of ProcessPPTX without the one of the theme filter
ProcessErrors_SkipsThemeValidation ==
    IF ~inputExists THEN {"input file not found: " \o inputPath}
    ELSE IF ~validateScope(scope) THEN scopeErrors(scope)
    ELSE IF ~ValidateSlideNumbers(slides) THEN {slideNumbersError(slides)}
    ELSE {}

\* ProcessPPTX, its validations in order: the errors the first one that
\* fails may return (the empty set when all of them pass)
ProcessErrors ==
    IF ~inputExists THEN {"input file not found: " \o inputPath}
    ELSE IF ~validateScope(scope) THEN scopeErrors(scope)
    ELSE IF ~validateThemeFilter(themeFilter, buildThemeRelationships)
    THEN themeFilterErrors(themeFilter, buildThemeRelationships)
    ELSE IF ~ValidateSlideNumbers(slides) THEN {slideNumbersError(slides)}
    ELSE {}

\* ProcessPPTX up to the walk: validation and the relationship tables
StartProcess ==
    /\ phase = "idle"
    /\ IF ProcessErrors = {}
       THEN /\ phase' = "walking"
            /\ xmlPatterns' = getXMLPatterns(scope)
            /\ masterToTheme' = buildThemeRelationships
            /\ layoutToMaster' = buildLayoutToMasterMapping
            /\ slideFiles' = GetSlideContent(slides)
            /\ walkPos' = 1
            /\ err' = ""
       ELSE /\ phase' = "error"
            /\ err' \in ProcessErrors
            /\ UNCHANGED <<xmlPatterns, masterToTheme, layoutToMaster, slideFiles, walkPos>>
    /\ UNCHANGED <<rwVars, callVars, colorMapping, givenVars, fileContent, scope, visited, written,
                   filesProcessed, output>>

\* the walk function, counting a file only when its bytes changed
VisitFile_CountsChanged(path) ==
    IF /\ walkAccepts(path, xmlPatterns, themeFilter, layoutToMaster, masterToTheme)
       /\ slideGate(path, slides, slideFiles)
    THEN /\ \E hm \in HexMappings(colorMapping) :
               fileContent' =
                   [fileContent EXCEPT ![path] = RewritePart(@, colorMapping, hm)]
         /\ written' = written \cup {path}
         /\ filesProcessed' =
               IF fileContent'[path] # fileContent[path]
               THEN filesProcessed + 1 ELSE filesProcessed
    ELSE UNCHANGED <<fileContent, written, filesProcessed>>

\* one call of the walk function: read, replace, write, count
VisitFile(path) ==
    IF /\ walkAccepts(path, xmlPatterns, themeFilter, layoutToMaster, masterToTheme)
       /\ slideGate(path, slides, slideFiles)
    THEN /\ \E hm \in HexMappings(colorMapping) :
               fileContent' =
                   [fileContent EXCEPT ![path] = RewritePart(@, colorMapping, hm)]
         /\ written' = written \cup {path}
         /\ filesProcessed' = filesProcessed + 1
    ELSE UNCHANGED <<fileContent, written, filesProcessed>>

\* the walk calls the function on the next file in lexical order
WalkStep ==
    /\ phase = "walking"
    /\ walkPos <= Len(WalkOrder)
    /\ VisitFile(WalkOrder[walkPos])
    /\ walkPos' = walkPos + 1
    /\ visited' = visited \cup {WalkOrder[walkPos]}
    /\ UNCHANGED <<rwVars, callVars, colorMapping, givenVars, scope, phase, xmlPatterns,
                   masterToTheme, layoutToMaster, slideFiles, err, output>>

\* a second walk that adds the XML files only
Repacked_XMLOnly == [f \in {g \in files : HasSuffix(g, ".xml")} |-> fileContent[f]]

\* the entries the second walk writes to the output archive
Repacked == [f \in files |-> fileContent[f]]

\* the walk is over: the output archive is created and written
FinishProcess ==
    /\ phase = "walking"
    /\ walkPos > Len(WalkOrder)
    /\ phase' = "done"
    /\ output' = [created |-> TRUE, parts |-> Repacked]
    /\ UNCHANGED <<rwVars, callVars, colorMapping, givenVars, fileContent, scope, xmlPatterns,
                   masterToTheme, layoutToMaster, slideFiles, walkPos, visited, written,
                   filesProcessed, err>>

NextArchive ==
    \/ StartProcess
    \/ WalkStep
    \/ FinishProcess

SpecArchive == InitArchive /\ [][NextArchive]_vars

-----------------------------------------------------------------------------
(* runColorSwap, the swap command *)

\* --slides with a scope flag other than all and content is refused
slidesScopeError(slideNums, sc) ==
    Len(slideNums) > 0 /\ sc # ScopeAll /\ sc # ScopeContent

\* the scope runColorSwap hands to ProcessPPTX, which ignores the slide filter
scopeHandedOn_KeepsFlag(slideNums, sc) == sc

\* the scope runColorSwap hands to ProcessPPTX: with --slides, the default
\* all becomes content
scopeHandedOn(slideNums, sc) ==
    IF Len(slideNums) > 0 /\ sc = ScopeAll THEN ScopeContent ELSE sc

\* the archives the command is run on: the slide descriptors vary
SwapArchives ==
    {a \in Archives :
        /\ a.order = [i \in 1..MaxSlides |-> i]
        /\ a.l1 = "slideMaster1.xml"
        /\ a.l2 = "slideMaster2.xml"
        /\ a.t1 = "theme1.xml"}

InitSwap ==
    /\ Given(SwapArchives)
    /\ colorMapping \in {[c \in {"accent1"} |-> "accent2"]}
    /\ themeFilter \in {<<>>, <<"theme1">>}
    /\ scope \in ScopeValues
    /\ slides \in SlideFilters
    /\ NotStarted("cmd")

\* runColorSwap up to its call of ProcessPPTX.  The answer to the overwrite
\* prompt and the outcome of parsing the mapping and the slide flag are
\* inputs: `colorMapping` and `slides` are what the two parsers return when
\* they succeed.
RunColorSwap ==
    /\ phase = "cmd"
    /\ \E shouldContinue, mappingParsed, slidesParsed \in BOOLEAN :
          IF \/ ~inputExists
             \/ ~shouldContinue
             \/ ~mappingParsed
             \/ ~slidesParsed
             \/ slidesScopeError(slides, scope)
          THEN /\ phase' = "cmdReturn"
               /\ scope' = scope
          ELSE /\ phase' = "idle"
               /\ scope' = scopeHandedOn(slides, scope)
    /\ UNCHANGED <<rwVars, callVars, colorMapping, givenVars, fileContent, xmlPatterns,
                   masterToTheme, layoutToMaster, slideFiles, walkPos, visited, written,
                   filesProcessed, err, output>>

NextSwap ==
    \/ RunColorSwap
    \/ StartProcess
    \/ WalkStep
    \/ FinishProcess

SpecSwap == InitSwap /\ [][NextSwap]_vars

-----------------------------------------------------------------------------
(* ProcessPPTX on a presentation whose slide list has entries without a slide *)

\* the slide lists: an entry names its relationship, or has no r:id, or
\* names a relationship the descriptor does not hold (rId9) or one that has
\* no target (rId8)
SkipLists ==
    {l \in [1..MaxSlides ->
                {"", "rId8", "rId9"} \cup {"rId" \o ToString(i + 1) : i \in 1..MaxSlides}] :
        \A i \in 1..MaxSlides : l[i] \in {"", "rId8", "rId9", "rId" \o ToString(i + 1)}}

\* one archive with every slide on layout 1
SkipArchives ==
    {a \in SwapArchives :
        \A n \in 1..MaxSlides :
            a.srel[n] = <<Rel("rId1", "slideLayout", "../slideLayouts/slideLayout1.xml")>>
                            \o SlideEmbeds(n)}

InitSkipped ==
    /\ \E a \in SkipArchives :
          /\ inputExists = TRUE
          /\ files = ArchiveFiles(a)
          /\ rels = [ArchiveRels(a) EXCEPT ![PresentationRels] = @ \o <<Rel("rId8", "slide", "")>>]
          /\ input = [f \in ArchiveFiles(a) |-> ContentOf(f)]
    /\ sldIdLst \in SkipLists
    /\ colorMapping \in {[c \in {"accent1"} |-> "accent2"]}
    /\ themeFilter = <<>>
    /\ scope \in ScopeValues
    /\ slides \in SlideFilters
    /\ NotStarted("idle")

SpecSkipped == InitSkipped /\ [][NextArchive]_vars

-----------------------------------------------------------------------------
(* RenameColorScheme *)

\* A theme part is described by the name of its theme element, the name of
\* its colour scheme ("" for a clrScheme without a name, "none" for a part
\* without a clrScheme) and the name of its font scheme; its bytes are a
\* string.
ThemeXML(t) ==
    "<a:theme name=\"" \o t.theme \o "\"><a:themeElements>"
    \o (IF t.scheme = "none" THEN ""
        ELSE IF t.scheme = "" THEN "<a:clrScheme><a:dk1/></a:clrScheme>"
        ELSE "<a:clrScheme name=\"" \o t.scheme \o "\"><a:dk1/></a:clrScheme>")
    \o "<a:fontScheme name=\"" \o t.font \o "\"/></a:themeElements></a:theme>"

ThemeParts == [theme : {"Office Theme", "Office"}, scheme : {"Office", "", "none"},
               font : {"Office", "Arial"}]

NewNames == {"Brand", "Office"}

\* bytes.Index: where old first occurs in content, 0 when it does not
BytesIndex(content, old) ==
    LET at == {i \in 1..(Len(content) - Len(old) + 1) :
                  SubSeq(content, i, i + Len(old) - 1) = old}
    IN  IF at = {} THEN 0 ELSE Min(at)

\* bytes.Replace(content, old, new, 1)
BytesReplaceOnce(content, old, new) ==
    LET i == BytesIndex(content, old)
    IN  IF i = 0 THEN content
        ELSE SubSeq(content, 1, i - 1) \o new \o SubSeq(content, i + Len(old), Len(content))

\* the theme files in the order filepath.Glob returns them
ThemeOrder == SelectSeq(After, LAMBDA f : f \in Glob("ppt/theme", "theme", ".xml"))

InitRename ==
    /\ \E a \in SkipArchives :
          /\ files = ArchiveFiles(a)
          /\ rels = ArchiveRels(a)
    /\ inputExists \in BOOLEAN
    /\ doc \in [1..Len(After) -> ThemeParts]
    /\ input = [f \in files |->
                   IF \E n \in 1..Len(After) : After[n] = f
                   THEN ThemeXML(doc[CHOOSE n \in 1..Len(After) : After[n] = f])
                   ELSE ContentOf(f)]
    /\ sldIdLst = [i \in 1..MaxSlides |-> "rId" \o ToString(i + 1)]
    /\ arg \in NewNames
    /\ fn = "none"
    /\ ret = NoReturn
    /\ colorMapping = EmptyMap
    /\ themeFilter \in ThemeFilters
    /\ scope = ScopeAll
    /\ slides = <<>>
    /\ fileContent = input
    /\ phase = "idle"
    /\ xmlPatterns = <<>>
    /\ masterToTheme = EmptyMap
    /\ layoutToMaster = EmptyMap
    /\ slideFiles = {}
    /\ walkPos = 0
    /\ visited = {}
    /\ written = {}
    /\ filesProcessed = 0
    /\ err = ""
    /\ output = NoOutput
    /\ op = "none"
    /\ result = <<>>
    /\ hexChoice = EmptyMap

\* RenameColorScheme, its checks before the loop: the errors the first one
\* that fails may return
RenameErrors ==
    IF ~inputExists THEN {"input file not found: " \o inputPath}
    ELSE IF ~validateThemeFilter(themeFilter, buildThemeRelationships)
    THEN themeFilterErrors(themeFilter, buildThemeRelationships)
    ELSE IF {f \in files : Dir(f) = "ppt/theme"} = {} THEN {"no themes directory found"}
    ELSE {}

StartRename ==
    /\ phase = "idle"
    /\ IF RenameErrors = {}
       THEN /\ phase' = "renaming"
            /\ masterToTheme' = buildThemeRelationships
            /\ walkPos' = 1
            /\ err' = ""
       ELSE /\ phase' = "error"
            /\ err' \in RenameErrors
            /\ UNCHANGED <<masterToTheme, walkPos>>
    /\ UNCHANGED <<rwVars, callVars, colorMapping, givenVars, fileContent, scope, xmlPatterns,
                   layoutToMaster, slideFiles, visited, written, filesProcessed, output>>

\* the loop over the theme files, one file: the filter, the clrScheme
\* element and its name, the replacement of the first name="current"
RenameStep ==
    /\ phase = "renaming"
    /\ walkPos <= Len(ThemeOrder)
    /\ LET themeFile == ThemeOrder[walkPos]
           t == doc[CHOOSE n \in 1..Len(After) : After[n] = themeFile]
           currentName == t.scheme
       IN  IF \/ Len(themeFilter) > 0 /\ ~InFilter(Base(themeFile), themeFiles(themeFilter))
              \/ t.scheme = "none"
              \/ currentName = ""
           THEN UNCHANGED <<fileContent, written, filesProcessed>>
           ELSE /\ fileContent' =
                       [fileContent EXCEPT ![themeFile] =
                           BytesReplaceOnce(@, "name=\"" \o currentName \o "\"",
                                            "name=\"" \o arg \o "\"")]
                /\ written' = written \cup {themeFile}
                /\ filesProcessed' = filesProcessed + 1
    /\ walkPos' = walkPos + 1
    /\ visited' = visited \cup {ThemeOrder[walkPos]}
    /\ UNCHANGED <<rwVars, callVars, colorMapping, givenVars, scope, phase, xmlPatterns,
                   masterToTheme, layoutToMaster, slideFiles, err, output>>

\* after the loop: the error of no theme renamed, or the output archive
FinishRename ==
    /\ phase = "renaming"
    /\ walkPos > Len(ThemeOrder)
    /\ IF filesProcessed = 0
       THEN /\ phase' = "error"
            /\ err' = "no themes were renamed (this might indicate an issue with the theme filter)"
            /\ UNCHANGED output
       ELSE /\ phase' = "done"
            /\ output' = [created |-> TRUE, parts |-> Repacked]
            /\ UNCHANGED err
    /\ UNCHANGED <<rwVars, callVars, colorMapping, givenVars, fileContent, scope, xmlPatterns,
                   masterToTheme, layoutToMaster, slideFiles, walkPos, visited, written,
                   filesProcessed>>

NextRename ==
    \/ StartRename
    \/ RenameStep
    \/ FinishRename

SpecRename == InitRename /\ [][NextRename]_vars

-----------------------------------------------------------------------------
(* The walk function in any order *)

\* a small archive: the slides on layout 1 of master 1 with theme 1, and a
\* second master with theme 2; the theme parts, which ProcessPPTX never
\* opens, are left out
AnyOrderFiles ==
    {PresentationRels, "ppt/presentation.xml",
     LayoutRelsPath(1), "ppt/slideLayouts/slideLayout1.xml",
     MasterRelsPath(1), "ppt/slideMasters/slideMaster1.xml",
     MasterRelsPath(2), "ppt/slideMasters/slideMaster2.xml"}
    \cup {SlideRelsPath(n) : n \in 1..MaxSlides}
    \cup {SlidePath(n) : n \in 1..MaxSlides}

AnyOrderRels ==
    [f \in {g \in AnyOrderFiles : HasSuffix(g, ".rels")} |->
        CASE f = PresentationRels -> PresentationRelsOf([i \in 1..MaxSlides |-> i])
          [] f = LayoutRelsPath(1) ->
                <<Rel("rId1", "slideMaster", "../slideMasters/slideMaster1.xml")>>
          [] f = MasterRelsPath(1) ->
                <<Rel("rId1", "slideLayout", "../slideLayouts/slideLayout1.xml"),
                  Rel("rId2", "theme", "../theme/theme1.xml")>>
          [] f = MasterRelsPath(2) ->
                <<Rel("rId1", "theme", "../theme/theme2.xml")>>
          [] OTHER ->
                <<Rel("rId1", "slideLayout", "../slideLayouts/slideLayout1.xml")>>]

\* every XML part holds a scheme-colour and an RGB element
AnyOrderBytes ==
    Bytes(<<[kind |-> "elem", name |-> "schemeClr", pfx |-> "a",
             val |-> "accent1", shape |-> "self"],
            [kind |-> "elem", name |-> "srgbClr", pfx |-> "a",
             val |-> "AABBCC", shape |-> "self"]>>)

\* the runs: a scheme mapping under no filter, a theme filter and a slide
\* filter, and a table with two hex sources that differ in letter case
AnyOrderRuns ==
    {[mapping |-> [c \in {"accent1"} |-> "accent2"],
      themes |-> <<>>, scope |-> ScopeAll, slides |-> <<>>],
     [mapping |-> [c \in {"accent1"} |-> "accent2"],
      themes |-> <<"theme2">>, scope |-> ScopeAll, slides |-> <<>>],
     [mapping |-> [c \in {"accent1"} |-> "accent2"],
      themes |-> <<>>, scope |-> ScopeContent, slides |-> <<1>>],
     [mapping |-> [c \in {"AABBCC", "aabbcc"} |->
                      IF c = "AABBCC" THEN "accent1" ELSE "accent2"],
      themes |-> <<>>, scope |-> ScopeContent, slides |-> <<>>]}

InitAnyOrder ==
    /\ inputExists = TRUE
    /\ files = AnyOrderFiles
    /\ rels = AnyOrderRels
    /\ sldIdLst = [i \in 1..MaxSlides |-> "rId" \o ToString(i + 1)]
    /\ input = [f \in AnyOrderFiles |->
                   IF HasSuffix(f, ".xml") THEN AnyOrderBytes ELSE <<f>>]
    /\ \E r \in AnyOrderRuns :
          /\ colorMapping = r.mapping
          /\ themeFilter = r.themes
          /\ scope = r.scope
          /\ slides = r.slides
    /\ NotStarted("idle")

\* the walk function is called on any file not yet visited; walkPos counts
\* the calls
VisitAny ==
    /\ phase = "walking"
    /\ \E path \in files \ visited :
          /\ VisitFile(path)
          /\ visited' = visited \cup {path}
    /\ walkPos' = walkPos + 1
    /\ UNCHANGED <<rwVars, callVars, colorMapping, givenVars, scope, phase, xmlPatterns,
                   masterToTheme, layoutToMaster, slideFiles, err, output>>

NextAnyOrder ==
    \/ StartProcess
    \/ VisitAny
    \/ FinishProcess

SpecAnyOrder == InitAnyOrder /\ [][NextAnyOrder]_vars

-----------------------------------------------------------------------------
(* parser.go: ParseColorMapping *)

Char(str, i) == SubSeq(str, i, i)

\* the white space strings.TrimSpace removes, as far as the model writes it
IsSpace(c) == c \in {" ", "\t", "\n"}

RECURSIVE TrimLeft(_)
TrimLeft(str) ==
    IF Len(str) > 0 /\ IsSpace(Char(str, 1)) THEN TrimLeft(SubSeq(str, 2, Len(str)))
    ELSE str

RECURSIVE TrimRight(_)
TrimRight(str) ==
    IF Len(str) > 0 /\ IsSpace(Char(str, Len(str)))
    THEN TrimRight(SubSeq(str, 1, Len(str) - 1))
    ELSE str

\* strings.TrimSpace
TrimSpace(str) == TrimRight(TrimLeft(str))

\* strings.Contains for a separator of one character
Contains(str, sep) == \E i \in 1..Len(str) : Char(str, i) = sep

\* strings.Split for a separator of one character: the pieces between the
\* separators, empty ones included
RECURSIVE SplitFrom(_, _, _, _)
SplitFrom(str, sep, i, cur) ==
    IF i > Len(str) THEN <<cur>>
    ELSE IF Char(str, i) = sep THEN <<cur>> \o SplitFrom(str, sep, i + 1, "")
    ELSE SplitFrom(str, sep, i + 1, cur \o Char(str, i))

StringsSplit(str, sep) == SplitFrom(str, sep, 1, "")

\* getValidColorsString: the scheme names, sorted and joined
getValidColorsString ==
    JoinStrings(SortStrings(<<"dk1", "lt1", "dk2", "lt2", "accent1", "accent2", "accent3",
                              "accent4", "accent5", "accent6", "hlink", "folHlink">>), ", ")

\* what a function returns on an error: no value
Fails(msg) == [value |-> <<>>, err |-> msg]

Returns(v) == [value |-> v, err |-> ""]

\* the loop of ParseColorMapping that overwrites on a second pair of a source
RECURSIVE ParsePairs_LastWins(_, _, _)
ParsePairs_LastWins(pairs, i, mappings) ==
    IF i > Len(pairs)
    THEN IF DOMAIN mappings = {} THEN Fails("no valid mappings found")
         ELSE Returns(mappings)
    ELSE
    LET pair == TrimSpace(pairs[i])
        parts == StringsSplit(pair, ":")
        source == TrimSpace(parts[1])
        target == TrimSpace(parts[2])
    IN  IF pair = "" THEN ParsePairs_LastWins(pairs, i + 1, mappings)
        ELSE IF ~Contains(pair, ":")
        THEN Fails("invalid mapping format: '" \o pair \o "'. Expected 'source:target'")
        ELSE IF Len(parts) # 2
        THEN Fails("invalid mapping format: '" \o pair \o "'. Expected exactly one ':'")
        ELSE IF source = "" \/ target = ""
        THEN Fails("invalid mapping: '" \o pair \o "'. Source and target cannot be empty")
        ELSE IF ~isValidColor(source)
        THEN Fails("invalid source color: '" \o source
                   \o "'. Must be a valid scheme color (" \o getValidColorsString
                   \o ") or 6-digit hex color (e.g., AABBCC)")
        ELSE IF ~isValidColor(target)
        THEN Fails("invalid target color: '" \o target
                   \o "'. Must be a valid scheme color (" \o getValidColorsString
                   \o ") or 6-digit hex color (e.g., AABBCC)")
        ELSE ParsePairs_LastWins(pairs, i + 1,
                 [k \in DOMAIN mappings \cup {source} |->
                     IF k = source THEN target ELSE mappings[k]])

\* ParseColorMapping, the loop over the pairs from pair i on, with the table
\* built so far
RECURSIVE ParsePairs(_, _, _)
ParsePairs(pairs, i, mappings) ==
    IF i > Len(pairs)
    THEN IF DOMAIN mappings = {} THEN Fails("no valid mappings found")
         ELSE Returns(mappings)
    ELSE
    LET pair == TrimSpace(pairs[i])
        parts == StringsSplit(pair, ":")
        source == TrimSpace(parts[1])
        target == TrimSpace(parts[2])
    IN  IF pair = "" THEN ParsePairs(pairs, i + 1, mappings)
        ELSE IF ~Contains(pair, ":")
        THEN Fails("invalid mapping format: '" \o pair \o "'. Expected 'source:target'")
        ELSE IF Len(parts) # 2
        THEN Fails("invalid mapping format: '" \o pair \o "'. Expected exactly one ':'")
        ELSE IF source = "" \/ target = ""
        THEN Fails("invalid mapping: '" \o pair \o "'. Source and target cannot be empty")
        ELSE IF ~isValidColor(source)
        THEN Fails("invalid source color: '" \o source
                   \o "'. Must be a valid scheme color (" \o getValidColorsString
                   \o ") or 6-digit hex color (e.g., AABBCC)")
        ELSE IF ~isValidColor(target)
        THEN Fails("invalid target color: '" \o target
                   \o "'. Must be a valid scheme color (" \o getValidColorsString
                   \o ") or 6-digit hex color (e.g., AABBCC)")
        ELSE IF source \in DOMAIN mappings
        THEN IF mappings[source] # target
             THEN Fails("conflicting mappings for '" \o source \o "':\n  - "
                        \o source \o " → " \o mappings[source] \o "\n  - "
                        \o source \o " → " \o target)
             ELSE ParsePairs(pairs, i + 1, mappings)
        ELSE ParsePairs(pairs, i + 1,
                 [k \in DOMAIN mappings \cup {source} |->
                     IF k = source THEN target ELSE mappings[k]])

ParseColorMapping(mappingStr) ==
    IF TrimSpace(mappingStr) = "" THEN Fails("mapping string cannot be empty")
    ELSE ParsePairs(StringsSplit(TrimSpace(mappingStr), ","), 1, EmptyMap)

-----------------------------------------------------------------------------
(* ParseSlideRange *)

DigitValue(c) == (CHOOSE i \in 1..10 : Char("0123456789", i) = c) - 1

RECURSIVE DigitsValue(_, _)
DigitsValue(str, acc) ==
    IF str = "" THEN acc
    ELSE DigitsValue(SubSeq(str, 2, Len(str)), 10 * acc + DigitValue(Char(str, 1)))

\* strconv.Atoi on the short strings of the model: an optional sign and at
\* least one decimal digit
Atoi(str) ==
    LET signed == Len(str) > 0 /\ Char(str, 1) \in {"+", "-"}
        digits == IF signed THEN SubSeq(str, 2, Len(str)) ELSE str
    IN  IF digits = "" \/ \E i \in 1..Len(digits) : ~Contains("0123456789", Char(digits, i))
        THEN [ok |-> FALSE, n |-> 0]
        ELSE [ok |-> TRUE,
              n |-> IF signed /\ Char(str, 1) = "-" THEN 0 - DigitsValue(digits, 0)
                    ELSE DigitsValue(digits, 0)]

\* an entry of ParseSlideRange that takes any start
ParseEntry_AnyStart(part) ==
    IF Contains(part, "-")
    THEN LET rangeParts == StringsSplit(part, "-")
             start == Atoi(TrimSpace(rangeParts[1]))
             end == Atoi(TrimSpace(rangeParts[2]))
         IN  IF Len(rangeParts) # 2
             THEN [err |-> "invalid range format '" \o part \o "' (expected '1-5')", nums |-> {}]
             ELSE IF ~start.ok
             THEN [err |-> "invalid slide number '" \o rangeParts[1] \o "'", nums |-> {}]
             ELSE IF ~end.ok
             THEN [err |-> "invalid slide number '" \o rangeParts[2] \o "'", nums |-> {}]
             ELSE IF start.n > end.n
             THEN [err |-> "invalid range " \o ToString(start.n) \o "-" \o ToString(end.n)
                           \o " (start > end)", nums |-> {}]
             ELSE [err |-> "", nums |-> start.n .. end.n]
    ELSE LET slideNum == Atoi(part)
         IN  IF ~slideNum.ok
             THEN [err |-> "invalid slide number '" \o part \o "'", nums |-> {}]
             ELSE [err |-> "", nums |-> {slideNum.n}]

\* ParseSlideRange, the body of its loop: the error of a trimmed entry, or the
\* slide numbers it adds (the messages write >= for the code's sign)
ParseEntry(part) ==
    IF Contains(part, "-")
    THEN LET rangeParts == StringsSplit(part, "-")
             start == Atoi(TrimSpace(rangeParts[1]))
             end == Atoi(TrimSpace(rangeParts[2]))
         IN  IF Len(rangeParts) # 2
             THEN [err |-> "invalid range format '" \o part \o "' (expected '1-5')", nums |-> {}]
             ELSE IF ~start.ok
             THEN [err |-> "invalid slide number '" \o rangeParts[1] \o "'", nums |-> {}]
             ELSE IF ~end.ok
             THEN [err |-> "invalid slide number '" \o rangeParts[2] \o "'", nums |-> {}]
             ELSE IF start.n < 1
             THEN [err |-> "invalid slide number " \o ToString(start.n) \o " (must be >= 1)",
                   nums |-> {}]
             ELSE IF start.n > end.n
             THEN [err |-> "invalid range " \o ToString(start.n) \o "-" \o ToString(end.n)
                           \o " (start > end)", nums |-> {}]
             ELSE [err |-> "", nums |-> start.n .. end.n]
    ELSE LET slideNum == Atoi(part)
         IN  IF ~slideNum.ok
             THEN [err |-> "invalid slide number '" \o part \o "'", nums |-> {}]
             ELSE IF slideNum.n < 1
             THEN [err |-> "invalid slide number " \o ToString(slideNum.n) \o " (must be >= 1)",
                   nums |-> {}]
             ELSE [err |-> "", nums |-> {slideNum.n}]

\* sort.Ints on the keys of the set of slides
RECURSIVE SortInts(_)
SortInts(S) ==
    IF S = {} THEN <<>>
    ELSE LET least == CHOOSE n \in S : \A m \in S : n <= m
         IN  <<least>> \o SortInts(S \ {least})

RECURSIVE ParseEntries(_, _, _)
ParseEntries(parts, i, slideSet) ==
    IF i > Len(parts)
    THEN IF slideSet = {} THEN Fails("no slides specified")
         ELSE Returns(SortInts(slideSet))
    ELSE LET entry == ParseEntry(TrimSpace(parts[i]))
         IN  IF entry.err # "" THEN Fails(entry.err)
             ELSE ParseEntries(parts, i + 1, slideSet \cup entry.nums)

ParseSlideRange(flag) ==
    IF flag = "" THEN Returns(<<>>)
    ELSE ParseEntries(StringsSplit(flag, ","), 1, {})

-----------------------------------------------------------------------------
(* ValidateName *)

invalidNameChars == <<".", "/", "\\", "?", ":", "*">>

\* ValidateName: nil, or the error of the empty name or of the first
\* character of the name that is among invalidNameChars
ValidateName(name) ==
    LET bad == {i \in 1..Len(name) :
                    \E k \in 1..Len(invalidNameChars) : Char(name, i) = invalidNameChars[k]}
        first == CHOOSE i \in bad : \A j \in bad : i <= j
    IN  IF name = "" THEN Fails("name cannot be empty")
        ELSE IF bad # {}
        THEN Fails("name contains invalid character '" \o Char(name, first)
                   \o "'. The following characters are not allowed: "
                   \o JoinStrings(invalidNameChars, " "))
        ELSE Returns(<<>>)

\* the number of comma-separated pieces of the arguments
MaxPairs == 3

\* what is written between the commas of a mapping argument: pairs of scheme
\* names and hex values, with white space, and the malformed pieces
PairPool ==
    {"accent1:accent2", "accent1:dk1", " accent1 : accent2 ", "hlink:accent1",
     "AABBCC:FF0000", "aabbcc:accent1", "AABBCC:ff0000",
     "accent1", "accent1:accent2:dk1", ":accent2", "accent1:", " : ",
     "Accent1:accent2", "accent1:GGGGGG", "AABBC:accent1", "accent1:AABBCCD",
     "", " "}

RECURSIVE JoinedUpTo(_, _, _)
JoinedUpTo(pool, sep, n) ==
    IF n = 1 THEN pool
    ELSE LET shorter == JoinedUpTo(pool, sep, n - 1)
         IN  shorter \cup {a \o sep \o b : a \in shorter, b \in pool}

MappingArgs == JoinedUpTo(PairPool, ",", MaxPairs)

\* what is written between the commas of a --slides flag: numbers and
\* ranges, with white space, a sign or a leading zero, and the malformed
\* entries
EntryPool ==
    {"1", "3", "2-4", "3-3", " 2 ", "1 - 3", "+2", "02",
     "0", "-1", "x", "5-", "-", "4-2", "1-2-3", "0-2", "2-x", "1.5", "", " "}

SlideArgs == JoinedUpTo(EntryPool, ",", MaxPairs)

\* the characters of a new scheme name: letters, a space, the characters the
\* comment of ValidateName lists, and two it does not
NameChars ==
    {"a", "B", " ", ".", "/", "\\", "?", ":", "*", "&", "^", "#", "@", "!", "-", "'"}

\* the length of a name
MaxNameLen == 3

NameArgs == {""} \cup JoinedUpTo(NameChars, "", MaxNameLen)

InitParse ==
    /\ arg \in MappingArgs \cup SlideArgs \cup NameArgs
    /\ fn = "none"
    /\ ret = NoReturn
    /\ NoArchive
    /\ colorMapping = EmptyMap
    /\ doc = <<>>
    /\ op = "none"
    /\ result = <<>>
    /\ hexChoice = EmptyMap

DoParseColorMapping ==
    /\ fn = "none"
    /\ arg \in MappingArgs
    /\ fn' = "ParseColorMapping"
    /\ ret' = ParseColorMapping(arg)
    /\ UNCHANGED <<arg, rwVars, colorMapping, archVars>>

DoParseSlideRange ==
    /\ fn = "none"
    /\ arg \in SlideArgs
    /\ fn' = "ParseSlideRange"
    /\ ret' = ParseSlideRange(arg)
    /\ UNCHANGED <<arg, rwVars, colorMapping, archVars>>

DoValidateName ==
    /\ fn = "none"
    /\ arg \in NameArgs
    /\ fn' = "ValidateName"
    /\ ret' = ValidateName(arg)
    /\ UNCHANGED <<arg, rwVars, colorMapping, archVars>>

NextParse ==
    \/ DoParseColorMapping
    \/ DoParseSlideRange
    \/ DoValidateName

SpecParse == InitParse /\ [][NextParse]_vars

-----------------------------------------------------------------------------
(* Reading a part: what the claims are stated over *)

IsColor(it) == it.kind = "elem" /\ it.name \in {"schemeClr", "srgbClr"}
IsScheme(it) == it.kind = "elem" /\ it.name = "schemeClr"
IsSrgb(it) == it.kind = "elem" /\ it.name = "srgbClr"

\* The colour elements of a part, in document order.
ColorElems(d) == SelectSeq(d, IsColor)

\* The hex sources of M that equal the value v up to letter case.
HexSourcesFor(M, v) ==
    {s \in DOMAIN M : isValidHexColor(s) /\ ToUpper(s) = ToUpper(v)}

\* No two sources of M are the same hex colour in different letter case.
NoCaseClash(M) ==
    \A s, t \in DOMAIN M :
        (isValidHexColor(s) /\ isValidHexColor(t) /\ ToUpper(s) = ToUpper(t)) => s = t

\* The source of M an element's value stands for: the value itself, or for an
\* RGB element the hex source equal to it up to letter case.  "" if none.
SourceOf(M, it) ==
    IF it.val \in DOMAIN M THEN it.val
    ELSE IF IsSrgb(it) /\ HexSourcesFor(M, it.val) # {}
    THEN CHOOSE s \in HexSourcesFor(M, it.val) : TRUE
    ELSE ""

\* A colour as written to a part: hex digits in upper case.
Canon(c) == IF isValidHexColor(c) THEN ToUpper(c) ELSE c

\* The colour open tags <p:schemeClr val="v" and <p:srgbClr val="v" found in
\* the bytes b from index i on, in order, each as <<name, v>>.
TagNameAt(b, i) ==
    IF i + 1 <= Len(b) /\ b[i] = LT /\ b[i + 1] \in {"schemeClr", "srgbClr"}
    THEN i + 1
    ELSE IF i + 3 <= Len(b) /\ b[i] = LT /\ b[i + 2] = COLON
            /\ b[i + 3] \in {"schemeClr", "srgbClr"}
    THEN i + 3
    ELSE 0

IsColorTag(b, i) ==
    LET n == TagNameAt(b, i)
    IN  /\ n # 0 /\ n + 5 <= Len(b)
        /\ b[n + 1] = SP /\ b[n + 2] = VALEQ /\ b[n + 3] = QUOTE /\ b[n + 5] = QUOTE

RECURSIVE ColorTags(_, _)
ColorTags(b, i) ==
    IF i > Len(b) THEN <<>>
    ELSE IF IsColorTag(b, i)
    THEN <<<<b[TagNameAt(b, i)], b[TagNameAt(b, i) + 4]>>>> \o ColorTags(b, i + 1)
    ELSE ColorTags(b, i + 1)

\* b is the concatenation of the parts ps, in order: a part [free |-> FALSE]
\* is there as its bytes, a part [free |-> TRUE] as any bytes.
RECURSIVE Framed(_, _)
Framed(b, ps) ==
    IF ps = <<>> THEN b = <<>>
    ELSE IF Head(ps).free
    THEN \E k \in 0..Len(b) : Framed(SubSeq(b, k + 1, Len(b)), Tail(ps))
    ELSE /\ Len(b) >= Len(Head(ps).bytes)
         /\ SubSeq(b, 1, Len(Head(ps).bytes)) = Head(ps).bytes
         /\ Framed(SubSeq(b, Len(Head(ps).bytes) + 1, Len(b)), Tail(ps))

\* The elements an operation is to rewrite.
Owns(o, it) ==
    CASE o = "ReplaceSchemeColors" -> IsScheme(it)
      [] o = "ReplaceSchemeColorsWithSrgb" -> IsScheme(it)
      [] o = "ReplaceSrgbColors" -> IsSrgb(it)
      [] o = "RewritePart" -> IsColor(it)
      [] OTHER -> FALSE

\* The source of the table that operation o is to apply to the item, or "".
Applies(o, M, it) == IF Owns(o, it) THEN SourceOf(M, it) ELSE ""

\* Every colour element of the part is found again in the result, one whose
\* value is a source s of the table with the colour M[s], every other with its
\* own value.
EachMappedOnce(o) ==
    LET cs == ColorElems(doc)
        out == ColorTags(result, 1)
    IN  /\ Len(out) = Len(cs)
        /\ \A i \in 1..Len(cs) :
              LET s == Applies(o, colorMapping, cs[i])
              IN  IF s = "" THEN out[i][2] = cs[i].val
                  ELSE Canon(out[i][2]) = Canon(colorMapping[s])

-----------------------------------------------------------------------------
(* The claims *)

\* C1: ReplaceSchemeColors (over scheme-colour elements) and ReplaceSrgbColors
\* (over RGB elements) give every element whose original value v is a source
\* of the table the value M[v], decided from the original part, and leave the
\* value of every other element alone.
C1_Atomic ==
    op \in {"ReplaceSchemeColors", "ReplaceSrgbColors"} => EachMappedOnce(op)

\* C1 holds of every table in which no two hex sources differ only in letter
\* case (chains, cycles and many-to-one tables included).
C1_AtomicNoClash ==
    (op \in {"ReplaceSchemeColors", "ReplaceSrgbColors"} /\ NoCaseClash(colorMapping))
        => EachMappedOnce(op)

\* C2: after the two passes of the pipeline every colour element of the part
\* has the colour M[original] if its original colour is a source and its
\* original colour otherwise, never M[M[original]].  Stated for the tables in
\* which no two hex sources differ only in letter case.
C2_AtMostOnce ==
    (op = "RewritePart" /\ NoCaseClash(colorMapping)) => EachMappedOnce(op)

Converted(M, it) ==
    IF IsScheme(it) /\ it.val \in DOMAIN M
    THEN IF isValidHexColor(M[it.val])
         THEN [it EXCEPT !.name = "srgbClr", !.val = ToUpper(M[it.val]), !.shape = "self"]
         ELSE [it EXCEPT !.val = M[it.val]]
    ELSE it

ToSchemeElem(M, it) ==
    LET s == Applies("ReplaceSrgbColors", M, it)
    IN  IF s # "" /\ ~isValidHexColor(M[s])
        THEN [free |-> FALSE,
              bytes |-> Ser([it EXCEPT !.name = "schemeClr", !.val = M[s], !.shape = "self"])]
        ELSE [free |-> s # "", bytes |-> Ser(it)]

C5_HexToScheme ==
    (op = "ReplaceSrgbColors" /\ NoCaseClash(colorMapping))
        => Framed(result, [i \in 1..Len(doc) |-> ToSchemeElem(colorMapping, doc[i])])

\* C6: an RGB element is rewritten iff its value equals a hex source of the
\* table up to letter case, and every hex target is written in upper case.
Written(t) == IF isValidHexColor(t) THEN <<"srgbClr", ToUpper(t)>> ELSE <<"schemeClr", t>>

C6_CaseInsensitive ==
    LET cs == ColorElems(doc)
        out == ColorTags(result, 1)
    IN  /\ op = "ReplaceSrgbColors" =>
              /\ Len(out) = Len(cs)
              /\ \A i \in 1..Len(cs) :
                    IF IsSrgb(cs[i]) /\ HexSourcesFor(colorMapping, cs[i].val) # {}
                    THEN out[i] \in {Written(colorMapping[s]) :
                                        s \in HexSourcesFor(colorMapping, cs[i].val)}
                    ELSE out[i] = <<cs[i].name, cs[i].val>>
        /\ op = "ReplaceSchemeColorsWithSrgb" =>
              /\ Len(out) = Len(cs)
              /\ \A i \in 1..Len(cs) :
                    (/\ IsScheme(cs[i]) /\ cs[i].val \in DOMAIN colorMapping
                     /\ isValidHexColor(colorMapping[cs[i].val]))
                        => out[i] = Written(colorMapping[cs[i].val])

C6_Witness ==
    /\ op = "ReplaceSrgbColors"
    /\ Len(doc) = 1 /\ IsSrgb(doc[1]) /\ doc[1].val = "aabbcc"
    /\ DOMAIN colorMapping = {"AABBCC"} /\ colorMapping["AABBCC"] = "ff0000"
    /\ ColorTags(result, 1) = << <<"srgbClr", "FF0000">> >>

\* C7: with an empty table each operation returns its input byte for byte, and
\* so does a pass whose table holds no source of the kind the pass owns.
C7_EmptyNoOp ==
    /\ (op # "none" /\ DOMAIN colorMapping = {}) => result = xmlContent
    /\ (op = "ReplaceSrgbColors" /\ \A s \in DOMAIN colorMapping : ~isValidHexColor(s))
            => result = xmlContent
    /\ (op = "ReplaceSchemeColorsWithSrgb"
            /\ \A s \in DOMAIN colorMapping : s \notin ValidSchemeColors)
            => result = xmlContent

C7_Witness ==
    /\ op = "ReplaceSrgbColors"
    /\ colorMapping = [s \in {"accent1"} |-> "AABBCC"]
    /\ Len(doc) = 2 /\ IsSrgb(doc[1]) /\ IsScheme(doc[2]) /\ doc[2].val = "accent1"

-----------------------------------------------------------------------------
(* Reading an archive: what the claims on the gates are stated over *)

ContentDirs == {"slides", "charts", "diagrams", "notesSlides"}

MasterDirs == {"slideMasters", "slideLayouts", "notesMasters", "handoutMasters"}

\* the path lies under ppt/<d>/ for a directory d of dirs
UnderPpt(p, dirs) ==
    /\ Len(Split(p)) >= 3
    /\ Split(p)[1] = "ppt"
    /\ Split(p)[2] \in dirs

InScope(sc, p) ==
    CASE sc = "content" -> UnderPpt(p, ContentDirs)
      [] sc = "master"  -> UnderPpt(p, MasterDirs)
      [] OTHER          -> UnderPpt(p, ContentDirs \cup MasterDirs)

\* the extension of the file name is xml
IsXMLPart(p) ==
    LET name == Base(p)
        dots == {i \in 1..Len(name) : SubSeq(name, i, i) = "."}
    IN  dots # {} /\ SubSeq(name, Max(dots) + 1, Len(name)) = "xml"

\* "slide", "layout", "master" for the three kinds the theme gate looks at
PartKind(p) ==
    LET s == Split(p)
    IN  IF Len(s) < 3 \/ s[1] # "ppt" THEN "other"
        ELSE IF s[2] = "slides" /\ HasPrefix(s[3], "slide") THEN "slide"
        ELSE IF s[2] = "slideLayouts" /\ HasPrefix(s[3], "slideLayout") THEN "layout"
        ELSE IF s[2] = "slideMasters" /\ HasPrefix(s[3], "slideMaster") THEN "master"
        ELSE "other"

\* the file names a part's descriptor links to with relationships of a kind
Links(p, kind) ==
    IF RelsFileOf(p) \in files
    THEN {Base(r.Target) : r \in {x \in Range(rels[RelsFileOf(p)]) :
                                      x.Type = RelNS \o "/" \o kind}}
    ELSE {}

ThemesOfMaster(m) == Links("ppt/slideMasters/" \o m, "theme")

ThemesOfLayout(l) ==
    UNION {ThemesOfMaster(m) : m \in Links("ppt/slideLayouts/" \o l, "slideMaster")}

\* the themes the relationship chain of a part leads to; empty when the
\* theme cannot be resolved
ThemesOf(p) ==
    CASE PartKind(p) = "slide"  -> UNION {ThemesOfLayout(l) : l \in Links(p, "slideLayout")}
      [] PartKind(p) = "layout" -> ThemesOfLayout(Base(p))
      [] PartKind(p) = "master" -> ThemesOfMaster(Base(p))
      [] OTHER                  -> {}

\* the filter, every name carrying the extension once
NormFilter == {TrimSuffix(themeFilter[i], ".xml") \o ".xml" : i \in 1..Len(themeFilter)}

\* the theme gate as the walk applies it: a slide, layout or master whose
\* theme resolves passes iff the theme is in the filter; every other part,
\* and a part of these kinds whose theme does not resolve, passes
PassesThemeGate(p) ==
    (PartKind(p) # "other" /\ ThemesOf(p) # {}) => ThemesOf(p) \cap NormFilter # {}

\* the files of the requested slides
SlideClosure == GetSlideContent(slides)

\* C8: when the run is over, a file of the archive has been rewritten iff
\* it is an XML part in scope that passes the theme gate when a theme filter
\* is given and belongs to the files of the requested slides when a slide
\* filter is given; no file failing one of the gates is rewritten.
C8_Eligible ==
    phase = "done" =>
        LET closure == SlideClosure
        IN  /\ written \subseteq files
            /\ filesProcessed = Cardinality(written)
            /\ \A p \in files :
                  p \in written <=>
                      /\ IsXMLPart(p)
                      /\ InScope(scope, p)
                      /\ (Len(themeFilter) = 0 \/ PassesThemeGate(p))
                      /\ (Len(slides) = 0 \/ p \in closure)

\* a finished run under both filters that rewrote some parts and left out
\* an XML part in scope
C8_Witness ==
    /\ phase = "done"
    /\ Len(themeFilter) > 0
    /\ Len(slides) > 0
    /\ written # {}
    /\ \E p \in files \ written :
          IsXMLPart(p) /\ InScope(scope, p) /\ p \in SlideClosure
    /\ \E p \in files \ written :
          IsXMLPart(p) /\ InScope(scope, p) /\ PassesThemeGate(p)

ProbePaths ==
    {"ppt/slidesx/a.xml", "slides/slide1.xml", "ppt/slides.xml", "ppt/charts/sub/a.xml",
     "ppt/slideMasters/slideMaster9.xml", "ppt/notesMasters/notesMaster1.xml"}

\* C9: a path matches the patterns of scope content iff it lies under
\* slides, charts, diagrams or notesSlides, those of scope master iff under
\* slideMasters, slideLayouts, notesMasters or handoutMasters, never both,
\* and those of scope all iff it matches one of the two; the walk rewrites
\* only files in its scope, and without filters a part under slideMasters
\* is rewritten under master and all and not under content.
C9_ScopeGate ==
    /\ (phase = "idle" /\ scope = "all" /\ Len(themeFilter) = 0 /\ Len(slides) = 0) =>
       \A p \in files \cup ProbePaths :
          /\ MatchesPatterns(p, getXMLPatterns("content")) <=> UnderPpt(p, ContentDirs)
          /\ MatchesPatterns(p, getXMLPatterns("master")) <=> UnderPpt(p, MasterDirs)
          /\ ~(MatchesPatterns(p, getXMLPatterns("content"))
               /\ MatchesPatterns(p, getXMLPatterns("master")))
          /\ MatchesPatterns(p, getXMLPatterns("all")) <=>
                (MatchesPatterns(p, getXMLPatterns("content"))
                 \/ MatchesPatterns(p, getXMLPatterns("master")))
    /\ phase = "done" => \A p \in written : InScope(scope, p)
    /\ (phase = "done" /\ Len(themeFilter) = 0 /\ Len(slides) = 0) =>
          \A p \in files :
              (IsXMLPart(p) /\ UnderPpt(p, {"slideMasters"})) =>
                  (p \in written <=> scope \in {"master", "all"})

\* a finished run of scope master that rewrote a master and no slide
C9_Witness ==
    /\ phase = "done"
    /\ scope = "master"
    /\ "ppt/slideMasters/slideMaster1.xml" \in written
    /\ SlidePath(1) \notin written

\* the slides, layouts and masters the other gates let through
ThemeGated ==
    LET closure == SlideClosure
    IN  {p \in files : /\ PartKind(p) # "other"
                       /\ IsXMLPart(p)
                       /\ InScope(scope, p)
                       /\ (Len(slides) = 0 \/ p \in closure)}

\* C10, as claimed: under a theme filter a slide, layout or master whose
\* theme cannot be resolved is not rewritten, and one whose theme resolves
\* is rewritten iff the theme is in the normalized filter.
C10_UnresolvedExcluded ==
    (phase = "done" /\ Len(themeFilter) > 0) =>
        \A p \in ThemeGated :
            p \in written <=> (ThemesOf(p) # {} /\ ThemesOf(p) \cap NormFilter # {})

\* C10, amended: under a theme filter a slide, layout or master whose theme
\* cannot be resolved passes the theme gate (it is rewritten when the other
\* gates let it through), and one whose theme resolves is rewritten iff the
\* theme is in the normalized filter.
C10_UnresolvedIncluded ==
    (phase = "done" /\ Len(themeFilter) > 0) =>
        \A p \in ThemeGated :
            p \in written <=> (ThemesOf(p) = {} \/ ThemesOf(p) \cap NormFilter # {})

\* a finished run under a theme filter that rewrote an unresolved slide and
\* a resolved part, and left out a part of another theme
C10_Witness ==
    /\ phase = "done"
    /\ Len(themeFilter) > 0
    /\ \E p \in ThemeGated : PartKind(p) = "slide" /\ ThemesOf(p) = {} /\ p \in written
    /\ \E p \in ThemeGated : ThemesOf(p) # {} /\ p \in written
    /\ \E p \in ThemeGated : ThemesOf(p) # {} /\ p \notin written

\* C11: under a theme filter, valid or not, shouldProcessFile lets every
\* part through that is no slide, slide layout or slide master (chart,
\* diagram, notes slide, notes master, handout master), and the run rewrites
\* every such XML part the scope and the slide filter let through, whatever
\* the theme of the slide that owns it.
C11_OthersPass ==
    /\ (phase = "idle" /\ scope = "all" /\ Len(slides) = 0 /\ Len(themeFilter) > 0) =>
          \A p \in files \cup ProbePaths :
              PartKind(p) = "other" =>
                  shouldProcessFile(p, themeFilter, buildLayoutToMasterMapping,
                                    buildThemeRelationships)
    /\ (phase = "done" /\ Len(themeFilter) > 0) =>
          LET closure == SlideClosure
          IN  \A p \in files :
                  (/\ PartKind(p) = "other"
                   /\ IsXMLPart(p)
                   /\ InScope(scope, p)
                   /\ (Len(slides) = 0 \/ p \in closure)) => p \in written

\* a finished run under the filter theme1 that left out a slide of theme2
\* and rewrote the chart of that slide and the notes master
C11_Witness ==
    /\ phase = "done"
    /\ themeFilter = <<"theme1">>
    /\ \E n \in 1..MaxSlides :
          /\ ThemesOf(SlidePath(n)) = {"theme2.xml"}
          /\ SlidePath(n) \notin written
          /\ Links(SlidePath(n), "chart") # {}
          /\ \A c \in Links(SlidePath(n), "chart") : ("ppt/charts/" \o c) \in written
    /\ "ppt/notesMasters/notesMaster1.xml" \in written

\* the slide parts of the archive, and the path of a slide it does not hold
SlideParts == {p \in files : PartKind(p) = "slide" /\ IsXMLPart(p)} \cup {SlidePath(9)}

\* the themes at the end of the chain slide -> layout -> master -> theme
\* through the descriptor of the slide and the two maps
ChainThemes(p, l2m, m2t) ==
    {m2t[l2m[l]] : l \in {k \in Links(p, "slideLayout") :
                              k \in DOMAIN l2m /\ l2m[k] \in DOMAIN m2t}}

\* C12: once the two maps are built, getSlideTheme returns for every slide
\* part the theme T iff the descriptor of the slide links a layout L with
\* layout -> master mapping L to M and master -> theme mapping M to T, and
\* the empty result when the descriptor is missing or a link of the chain
\* is; T is also the theme the descriptors themselves lead to.  No step of
\* a run changes the descriptors, and no step of the walk, where
\* getSlideTheme is called, changes the two maps.
C12_Resolves ==
    (phase = "walking" /\ walkPos = 1) =>
        \A p \in SlideParts :
            /\ getSlideTheme(p, layoutToMaster, masterToTheme) # ""
                  => ChainThemes(p, layoutToMaster, masterToTheme)
                        = {getSlideTheme(p, layoutToMaster, masterToTheme)}
            /\ getSlideTheme(p, layoutToMaster, masterToTheme) = ""
                  => ChainThemes(p, layoutToMaster, masterToTheme) = {}
            /\ ChainThemes(p, layoutToMaster, masterToTheme) = ThemesOf(p)

C12_Pure ==
    [][/\ files' = files
       /\ rels' = rels
       /\ sldIdLst' = sldIdLst
       /\ phase = "walking" => (masterToTheme' = masterToTheme
                                /\ layoutToMaster' = layoutToMaster)]_vars

C12_SlideTheme == []C12_Resolves /\ C12_Pure

\* the maps are built, one slide resolves to theme2 and another, whose
\* descriptor is missing, to nothing
C12_Witness ==
    /\ phase = "walking"
    /\ walkPos = 1
    /\ \E p, q \in SlideParts :
          /\ getSlideTheme(p, layoutToMaster, masterToTheme) = "theme2.xml"
          /\ q \in files
          /\ RelsFileOf(q) \notin files
          /\ getSlideTheme(q, layoutToMaster, masterToTheme) = ""

DiagramKinds ==
    {"diagramData", "diagramLayout", "diagramColors", "diagramQuickStyle", "diagramDrawing"}

\* the file names all the relationships of a part's descriptor link to
AllLinks(p) ==
    IF RelsFileOf(p) \in files
    THEN {Base(r.Target) : r \in Range(rels[RelsFileOf(p)])}
    ELSE {}

\* the part of the slide at a position of the slide list
VisualSlide(n) ==
    "ppt/" \o (CHOOSE r \in Range(rels[PresentationRels]) : r.Id = sldIdLst[n]).Target

\* what belongs to a slide part: the part, its charts with their XML
\* sub-parts, its diagram parts and its notes slide
ContentOfSlide(p) ==
    {p}
    \cup {"ppt/charts/" \o c : c \in Links(p, "chart")}
    \cup UNION {{"ppt/charts/" \o x : x \in {y \in AllLinks("ppt/charts/" \o c) : IsXMLPart(y)}}
                : c \in Links(p, "chart")}
    \cup {"ppt/diagrams/" \o d : d \in UNION {Links(p, k) : k \in DiagramKinds}}
    \cup {"ppt/notesSlides/" \o n : n \in Links(p, "notesSlide")}

\* C13: for the requested slide numbers GetSlideContent returns exactly the
\* parts of the requested slides, the charts they link, the XML sub-parts
\* the descriptors of these charts link (no other sub-part), the parts
\* linked by the five diagram relationship kinds and the linked notes
\* slides; neither a layout nor a part of a slide that is not requested.
\* So for every request, in range or not, and for the set a run computes.
RequestedContent ==
    UNION {ContentOfSlide(VisualSlide(slides[i])) :
              i \in {j \in 1..Len(slides) : slides[j] \in 1..Len(sldIdLst)}}

C13_Closure ==
    /\ (phase = "idle" /\ inputExists /\ scope = "all" /\ Len(themeFilter) = 0) =>
          /\ GetSlideContent(slides) = RequestedContent
          /\ \A f \in GetSlideContent(slides) :
                /\ IsXMLPart(f)
                /\ ~UnderPpt(f, MasterDirs)
    /\ (phase = "walking" /\ walkPos = 1) => slideFiles = RequestedContent

\* slide 1 is requested, at that position stands the part that links the
\* chart, and the result is the slide, the chart and its two XML sub-parts
C13_Witness ==
    /\ phase = "walking"
    /\ slides = <<1>>
    /\ "sheet1.xlsx" \in AllLinks("ppt/charts/chart1.xml")
    /\ \E n \in 1..MaxSlides :
          /\ Links(SlidePath(n), "slideLayout") # {}
          /\ slideFiles =
                {SlidePath(n), "ppt/charts/chart1.xml", "ppt/charts/style1.xml",
                 "ppt/charts/colors1.xml"}

\* the theme file names the theme links of the slide masters lead to
EdgeThemes == UNION {Links(p, "theme") : p \in {q \in files : PartKind(q) = "master"}}

\* a theme name without the extension
NameOf(t) == TrimSuffix(t, ".xml")

\* the entry names, with or without the extension, a theme some master links
ResolvesToEdge(t) == \E e \in EdgeThemes : NameOf(t) = NameOf(e)

Unresolved == SelectSeq(themeFilter, LAMBDA t : ~ResolvesToEdge(t))

\* the strings of S in increasing order
SortedNames(S) ==
    CHOOSE a \in KeyOrders(S) : \A i, j \in DOMAIN a : i < j => StrLess(a[i], a[j])

\* C14: a run with a theme filter passes the validation of the filter iff
\* every entry, with or without the .xml suffix, is a theme that some
\* master -> theme edge leads to; otherwise the run fails before a part is
\* rewritten, and the error names the unresolved entries and lists the
\* available theme names, each once and in increasing order.
C14_ThemeValidation ==
    (/\ phase \in {"walking", "error"}
     /\ walkPos <= 1
     /\ inputExists
     /\ validateScope(scope)
     /\ Len(themeFilter) > 0) =>
        IF Unresolved = <<>>
        THEN ~HasPrefix(err, "theme(s) not found")
        ELSE /\ phase = "error"
             /\ err = "theme(s) not found: " \o JoinStrings(Unresolved, ", ")
                        \o "\nAvailable themes: "
                        \o JoinStrings(SortedNames({NameOf(e) : e \in EdgeThemes}), ", ")
             /\ written = {}
             /\ fileContent = input
             /\ ~output.created

IsDigit(c) == \E i \in 1..10 : SubSeq("0123456789", i, i) = c

\* the numerals of a message, in order: its maximal runs of digits, from
\* character i on, cur being the run that ends before i
RECURSIVE NumeralsFrom(_, _, _)
NumeralsFrom(msg, i, cur) ==
    IF i > Len(msg) THEN (IF cur = "" THEN <<>> ELSE <<cur>>)
    ELSE IF IsDigit(SubSeq(msg, i, i)) THEN NumeralsFrom(msg, i + 1, cur \o SubSeq(msg, i, i))
    ELSE IF cur = "" THEN NumeralsFrom(msg, i + 1, "")
    ELSE <<cur>> \o NumeralsFrom(msg, i + 1, "")

Numerals(msg) == NumeralsFrom(msg, 1, "")

\* the number of slides of the presentation, and the requested numbers
\* beyond it, as numerals
SlideCount == Len(sldIdLst)

Beyond ==
    LET over == SelectSeq(slides, LAMBDA n : n > SlideCount)
    IN  [i \in 1..Len(over) |-> ToString(over[i])]

\* C15: ValidateSlideNumbers fails iff some requested number is greater
\* than the number n of slides; an empty request passes; the one message
\* names every requested number greater than n, and then n.  A run without
\* theme filter fails on its slide numbers in exactly these cases, with
\* this message.
C15_SlideValidation ==
    /\ (phase = "idle" /\ inputExists /\ scope = "all" /\ Len(themeFilter) = 0) =>
          /\ ValidateSlideNumbers(slides) <=> Beyond = <<>>
          /\ Len(slides) = 0 => ValidateSlideNumbers(slides)
          /\ Beyond # <<>> =>
                Numerals(slideNumbersError(slides)) = Beyond \o <<ToString(SlideCount)>>
    /\ (phase \in {"walking", "error"} /\ walkPos <= 1 /\ inputExists
            /\ validateScope(scope) /\ Len(themeFilter) = 0) =>
          /\ phase = "error" <=> Beyond # <<>>
          /\ phase = "error" => Numerals(err) = Beyond \o <<ToString(SlideCount)>>

\* a run that failed on a request with one number in range and two beyond
C15_Witness ==
    /\ phase = "error"
    /\ Len(themeFilter) = 0
    /\ Len(slides) = 3
    /\ Len(Beyond) = 2
    /\ Numerals(err) = Beyond \o <<ToString(SlideCount)>>

-----------------------------------------------------------------------------
(* C16 *)

InProcessPPTX == phase \in {"idle", "walking", "done", "error"}

\* ProcessPPTX is entered with a slide filter only under scope content
C16_Called == (InProcessPPTX /\ Len(slides) > 0) => scope = ScopeContent

\* with a slide filter, the command either returns before ProcessPPTX, and
\* does so whenever the scope flag is neither all nor content, or calls it
\* with scope content, which was the flag or replaces the default all
C16_Step ==
    (phase = "cmd" /\ Len(slides) > 0) =>
        /\ \/ phase' = "cmdReturn" /\ scope' = scope
           \/ /\ phase' = "idle"
              /\ scope \in {ScopeAll, ScopeContent}
              /\ scope' = ScopeContent
        /\ scope \notin {ScopeAll, ScopeContent} => phase' = "cmdReturn"

\* C16: in the swap command, whenever the slide filter is non-empty, either
\* the command fails before ProcessPPTX is called, or the scope handed to
\* ProcessPPTX is content (given explicitly, or set when the scope was left
\* at its default all); ProcessPPTX is never called with a non-empty slide
\* set and another scope.
C16_SlidesScope == []C16_Called /\ [][C16_Step]_vars

\* a run with a slide filter went through ProcessPPTX under scope content
\* and rewrote the files of the slides
C16_Witness ==
    /\ phase = "done"
    /\ Len(slides) > 0
    /\ scope = ScopeContent
    /\ xmlPatterns = getXMLPatterns(ScopeContent)
    /\ written # {}
    /\ written \subseteq slideFiles


-----------------------------------------------------------------------------
(* C17 *)

\* the master -> theme table the theme filter is validated against: the
\* one of the archive, which ProcessPPTX keeps once it has built it
ThemeTable ==
    IF phase \in {"walking", "done"} THEN masterToTheme ELSE buildThemeRelationships

\* one of the archive-level validations fails on what the run is given
ValidationFails ==
    \/ ~inputExists
    \/ ~validateScope(scope)
    \/ ~validateThemeFilter(themeFilter, ThemeTable)
    \/ ~ValidateSlideNumbers(slides)

\* the parts the walk is to rewrite
Eligible ==
    LET patterns == getXMLPatterns(scope)
        l2m == buildLayoutToMasterMapping
        m2t == buildThemeRelationships
        sf == GetSlideContent(slides)
    IN  {f \in files : /\ walkAccepts(f, patterns, themeFilter, l2m, m2t)
                       /\ slideGate(f, slides, sf)}

C17_WitnessDone ==
    /\ output.created
    /\ Len(themeFilter) > 0
    /\ Len(slides) > 0
    /\ written # {}


-----------------------------------------------------------------------------
(* C18 *)

\* the parts whose bytes in the output differ from the input
Modified == {f \in files : output.parts[f] # input[f]}

\* C18 as stated: the count returned by ProcessPPTX is the number of parts
\* actually modified (an eligible part without a mapping source adds nothing)
C18_CountsModified == phase = "done" => filesProcessed = Cardinality(Modified)

\* C18: the count returned by ProcessPPTX is the number of eligible parts
\* it processed, that is read, passed through the two rewrite passes and
\* written back, whether or not their bytes changed; the parts modified are
\* among them.
C18_CountsProcessed ==
    /\ filesProcessed = Cardinality(written)
    /\ phase = "done" =>
          /\ written = Eligible
          /\ Modified \subseteq written

\* a finished run counted a part it left as it was, besides one it changed
C18_Witness ==
    /\ phase = "done"
    /\ filesProcessed = Cardinality(written)
    /\ \E f \in written : output.parts[f] = input[f]
    /\ \E f \in written : output.parts[f] # input[f]
    /\ filesProcessed > Cardinality(Modified)


-----------------------------------------------------------------------------
(* C19 *)

\* the parts that are never eligible: theme definitions, the presentation
\* part, relationship descriptors and what is no XML part
NeverEligible ==
    {f \in files : \/ HasPrefix(f, "ppt/theme/")
                   \/ f = "ppt/presentation.xml"
                   \/ HasSuffix(f, ".rels")
                   \/ ~HasSuffix(f, ".xml")}

\* C19: after a successful ProcessPPTX, the output archive holds exactly the
\* part names of the input archive's file entries, and every part that is
\* not eligible for rewriting (theme definitions, presentation.xml,
\* relationship descriptors, media and other non-XML payloads, and parts
\* excluded by scope, theme or slide gate) has the bytes of the input.
C19_Preserved ==
    phase = "done" =>
        /\ DOMAIN output.parts = DOMAIN input
        /\ NeverEligible \cap Eligible = {}
        /\ \A f \in NeverEligible \cup (files \ Eligible) : output.parts[f] = input[f]

\* a run under a theme and slide filter changed a part and left a slide
\* with the same bytes outside the filter, the themes, the descriptors and
\* the media as they were
C19_Witness ==
    /\ phase = "done"
    /\ Len(themeFilter) > 0
    /\ Len(slides) > 0
    /\ \E f \in files : output.parts[f] # input[f]
    /\ \E f \in files \ written :
          /\ HasPrefix(f, "ppt/slides/slide")
          /\ input[f] = PartBytes
          /\ output.parts[f] = PartBytes
    /\ output.parts["ppt/theme/theme1.xml"] = PartBytes
    /\ output.parts["ppt/media/image1.png"] = input["ppt/media/image1.png"]


-----------------------------------------------------------------------------
(* C20 *)

\* the parts the gates of the walk function read
ReadByGates == {f \in files : HasSuffix(f, ".rels")} \cup {"ppt/presentation.xml"}

\* the state of the walk is the one the archive, the mapping and the set of
\* visited files determine: the eligible files among them are written and
\* counted, each holds the rewriting of its own original bytes, which the
\* mapping determines, every other file holds its original bytes, and no
\* file the gates read is written
OrderFree ==
    phase \in {"walking", "done"} =>
        LET done == visited \cap Eligible
        IN  /\ written = done
            /\ written \cap ReadByGates = {}
            /\ filesProcessed = Cardinality(done)
            /\ \A f \in files : \A hm \in HexMappings(colorMapping) :
                  fileContent[f] =
                      IF f \in done THEN RewritePart(input[f], colorMapping, hm)
                      ELSE input[f]

\* C20: the rewritten content of each part depends only on that part's
\* original bytes and the mapping, and the eligibility of each part only on
\* parts that are never rewritten; so the final content of every part and
\* the returned count are the same for every order in which the parts are
\* visited.
C20_OrderFree == OrderFree

\* C20 holds of every table in which no two hex sources differ only in
\* letter case.
C20_OrderFreeNoClash == NoCaseClash(colorMapping) => OrderFree


-----------------------------------------------------------------------------
(* C21 *)

Occurs(str, sub) ==
    \E i \in 1..(Len(str) - Len(sub) + 1) : SubSeq(str, i, i + Len(sub) - 1) = sub

\* what is written between the commas of the argument
Pieces(str) == StringsSplit(TrimSpace(str), ",")

Colons(piece) == {i \in 1..Len(piece) : Char(piece, i) = ":"}

\* the source and the target a piece with one colon names
PairSource(piece) ==
    LET c == CHOOSE i \in Colons(piece) : TRUE IN TrimSpace(SubSeq(piece, 1, c - 1))

PairTarget(piece) ==
    LET c == CHOOSE i \in Colons(piece) : TRUE IN TrimSpace(SubSeq(piece, c + 1, Len(piece)))

Blank(piece) == \A i \in 1..Len(piece) : IsSpace(Char(piece, i))

SchemeTokens ==
    {"dk1", "lt1", "dk2", "lt2", "accent1", "accent2", "accent3", "accent4", "accent5",
     "accent6", "hlink", "folHlink"}

IsHex6(str) ==
    /\ Len(str) = 6
    /\ \A i \in 1..6 : Occurs("0123456789abcdefABCDEF", Char(str, i))

IsColorWord(str) == str \in SchemeTokens \/ IsHex6(str)

\* a piece that is a pair: one colon, a colour on either side
IsPair(piece) ==
    /\ Cardinality(Colons(piece)) = 1
    /\ IsColorWord(PairSource(piece))
    /\ IsColorWord(PairTarget(piece))

\* the argument without its piece j
JoinWithout(pieces, j) ==
    JoinStrings([k \in 1..(Len(pieces) - 1) |-> IF k < j THEN pieces[k] ELSE pieces[k + 1]],
                ",")

\* piece j gives a source of an earlier piece another target
Conflicts(pieces, j) ==
    /\ IsPair(pieces[j])
    /\ \E i \in 1..(j - 1) :
          /\ IsPair(pieces[i])
          /\ PairSource(pieces[i]) = PairSource(pieces[j])
          /\ PairTarget(pieces[i]) # PairTarget(pieces[j])

\* duplicates are absorbed: the argument without the later of two pairs of
\* one source and one target parses to the same result
C21_Absorbed ==
    fn = "ParseColorMapping" =>
        LET pieces == Pieces(arg)
        IN  \A j \in 1..Len(pieces) : \A i \in 1..(j - 1) :
                (/\ IsPair(pieces[i])
                 /\ IsPair(pieces[j])
                 /\ PairSource(pieces[i]) = PairSource(pieces[j])
                 /\ PairTarget(pieces[i]) = PairTarget(pieces[j]))
                => ParseColorMapping(JoinWithout(pieces, j)) = ret

\* a conflict fails the parse with no table; when the parser reaches the
\* first conflicting pair (every piece before it is a pair or blank), the
\* error is the conflicting-mapping error naming the source and both targets
C21_Conflict ==
    fn = "ParseColorMapping" =>
        LET pieces == Pieces(arg)
            hit == {j \in 1..Len(pieces) : Conflicts(pieces, j)}
        IN  hit # {} =>
              LET j == CHOOSE k \in hit : \A l \in hit : k <= l
                  i == CHOOSE k \in 1..(j - 1) :
                          /\ IsPair(pieces[k])
                          /\ PairSource(pieces[k]) = PairSource(pieces[j])
                          /\ \A l \in 1..(k - 1) :
                                IsPair(pieces[l]) =>
                                    PairSource(pieces[l]) # PairSource(pieces[j])
              IN  /\ ret.err # ""
                  /\ ret.value = <<>>
                  /\ (\A l \in 1..(j - 1) : IsPair(pieces[l]) \/ Blank(pieces[l])) =>
                        /\ HasPrefix(ret.err, "conflicting mappings for '"
                                              \o PairSource(pieces[j]) \o "'")
                        /\ Occurs(ret.err, " → " \o PairTarget(pieces[i]))
                        /\ Occurs(ret.err, " → " \o PairTarget(pieces[j]))

-----------------------------------------------------------------------------
(* C22 *)

\* the pieces of the argument that are not blank
NonBlank(str) == {i \in 1..Len(Pieces(str)) : ~Blank(Pieces(str)[i])}

\* every piece that is not blank is a pair, no source has two targets, and a
\* pair remains
Acceptable(str) ==
    LET pieces == Pieces(str)
    IN  /\ NonBlank(str) # {}
        /\ \A i \in NonBlank(str) : IsPair(pieces[i])
        /\ \A i, j \in NonBlank(str) :
              PairSource(pieces[i]) = PairSource(pieces[j])
                  => PairTarget(pieces[i]) = PairTarget(pieces[j])

\* the table of an acceptable argument: each source as written, with its
\* target as written
TableOf(str) ==
    LET pieces == Pieces(str)
    IN  [src \in {PairSource(pieces[i]) : i \in NonBlank(str)} |->
            PairTarget(pieces[CHOOSE i \in NonBlank(str) : PairSource(pieces[i]) = src])]

\* C22: ParseColorMapping accepts an input iff, after splitting on ',' and
\* trimming, every non-empty pair has exactly one ':' with both sides
\* non-empty and each side a scheme token or a 6-hex-digit string, no source
\* has two different targets, and at least one pair remains; on success the
\* table holds each source and target as written after trimming; on every
\* failure it returns an error and no table.
C22_Accepts ==
    fn = "ParseColorMapping" =>
        /\ ret.err = "" <=> Acceptable(arg)
        /\ ret.err = "" => ret.value = TableOf(arg)
        /\ ret.err # "" => ret.value = <<>>

\* two hex sources that differ in letter case, one with a lower-case target,
\* were kept as written
C22_Witness ==
    /\ fn = "ParseColorMapping"
    /\ arg = "AABBCC:ff0000, accent1 : accent2 ,aabbcc:accent1"
    /\ ret.err = ""
    /\ DOMAIN ret.value = {"AABBCC", "aabbcc", "accent1"}
    /\ ret.value["AABBCC"] = "ff0000"
    /\ ParseColorMapping("accent1:accent2:dk1").err # ""
    /\ ParseColorMapping(" , ").err = "no valid mappings found"


-----------------------------------------------------------------------------
(* C23 *)

Entries(str) == StringsSplit(str, ",")

Dashes(entry) == {i \in 1..Len(entry) : Char(entry, i) = "-"}

\* a decimal numeral, with or without a plus sign, and the number it names
IsNumeral(str) ==
    LET digits == IF HasPrefix(str, "+") THEN SubSeq(str, 2, Len(str)) ELSE str
    IN  /\ digits # ""
        /\ \A i \in 1..Len(digits) : IsDigit(Char(digits, i))

RECURSIVE StripZeros(_)
StripZeros(str) ==
    IF Len(str) > 1 /\ Char(str, 1) = "0" THEN StripZeros(SubSeq(str, 2, Len(str)))
    ELSE str

\* the largest number a numeral of the arguments names
MaxNumber == 99

NumberOf(str) ==
    LET digits == IF HasPrefix(str, "+") THEN SubSeq(str, 2, Len(str)) ELSE str
    IN  CHOOSE n \in 0..MaxNumber : ToString(n) = StripZeros(digits)

\* the numbers an entry names: a positive integer, or start-end with
\* 1 <= start <= end; no numbers when the entry is of neither form
Named(entry) ==
    LET e == TrimSpace(entry)
        d == CHOOSE i \in Dashes(e) : TRUE
        from == TrimSpace(SubSeq(e, 1, d - 1))
        to == TrimSpace(SubSeq(e, d + 1, Len(e)))
    IN  IF Dashes(e) = {}
        THEN IF IsNumeral(e) /\ NumberOf(e) >= 1 THEN {NumberOf(e)} ELSE {}
        ELSE IF /\ Cardinality(Dashes(e)) = 1
                /\ IsNumeral(from)
                /\ IsNumeral(to)
                /\ 1 <= NumberOf(from)
                /\ NumberOf(from) <= NumberOf(to)
        THEN NumberOf(from) .. NumberOf(to)
        ELSE {}

\* C23: for every non-empty input of comma-separated entries, each a
\* positive integer or start-end with 1 <= start <= end, ParseSlideRange
\* returns the strictly increasing sequence of exactly the numbers the
\* entries name; an entry of another form (zero, negative, non-numeric,
\* 'start-', start > end, more than one '-') fails the whole parse with no
\* result; the empty input yields no filter and no error.
C23_SlideRange ==
    fn = "ParseSlideRange" =>
        LET entries == Entries(arg)
        IN  IF arg = "" THEN ret = Returns(<<>>)
            ELSE IF \A i \in 1..Len(entries) : Named(entries[i]) # {}
            THEN /\ ret.err = ""
                 /\ \A i \in 1..(Len(ret.value) - 1) : ret.value[i] < ret.value[i + 1]
                 /\ {ret.value[i] : i \in 1..Len(ret.value)} =
                        UNION {Named(entries[i]) : i \in 1..Len(entries)}
            ELSE /\ ret.err # ""
                 /\ ret.value = <<>>

\* overlapping entries out of order, with white space, gave the sorted
\* numbers once each
C23_Witness ==
    /\ fn = "ParseSlideRange"
    /\ arg = "3,1 - 3, 2 "
    /\ ret = Returns(<<1, 2, 3>>)
    /\ ParseSlideRange("2-4,0").err # ""


-----------------------------------------------------------------------------
(* C25 *)

\* the characters the comment of ValidateName says a name may not hold
ListedChars == {".", "/", "\\", "?", ":", "*", "&", "^", "#", "@", "!"}

HoldsListed(name) == \E i \in 1..Len(name) : Char(name, i) \in ListedChars

\* C25: ValidateName rejects the empty name and every name that holds one
\* of . / \ ? : * & ^ # @ ! with an error that names an offending character
\* of the name, and accepts every other name.
C25_RejectsListed ==
    fn = "ValidateName" =>
        IF arg = "" THEN ret.err # ""
        ELSE IF HoldsListed(arg)
        THEN \E i \in 1..Len(arg) :
                 /\ Char(arg, i) \in ListedChars
                 /\ Occurs(ret.err, "invalid character '" \o Char(arg, i) \o "'")
        ELSE ret.err = ""

\* what the code does: the same with the six characters of invalidNameChars
C25_RejectsSix ==
    fn = "ValidateName" =>
        LET six == {invalidNameChars[k] : k \in 1..Len(invalidNameChars)}
        IN  IF arg = "" THEN ret.err # ""
            ELSE IF \E i \in 1..Len(arg) : Char(arg, i) \in six
            THEN \E i \in 1..Len(arg) :
                     /\ Char(arg, i) \in six
                     /\ \A j \in 1..(i - 1) : Char(arg, j) \notin six
                     /\ Occurs(ret.err, "invalid character '" \o Char(arg, i) \o "'")
            ELSE ret.err = ""

\* a name with an ampersand was accepted
C25_Accepted ==
    /\ fn = "ValidateName"
    /\ arg = "a&B"
    /\ ret.err = ""


-----------------------------------------------------------------------------
(* C24 *)

SingleOps == {"ReplaceSchemeColors", "ReplaceSrgbColors", "ReplaceSchemeColorsWithSrgb"}

\* the part holds elements with val as their only attribute and, for a
\* container, their closing tag
WellShaped(d) == \A i \in 1..Len(d) : d[i] \notin OddShapeItems

\* the open tag the operation is to write for an element it owns whose value
\* stands for the source s: the prefix of the element, the name of the kind
\* of the target, the target
TagWritten(o, M, it) ==
    LET t == M[SourceOf(M, it)]
    IN  <<LT>> \o Pfx(it.pfx)
        \o (IF o = "ReplaceSchemeColors" THEN <<"schemeClr", SP, VALEQ, QUOTE, t>>
            ELSE IF isValidHexColor(t) THEN <<"srgbClr", SP, VALEQ, QUOTE, ToUpper(t)>>
            ELSE <<"schemeClr", SP, VALEQ, QUOTE, t>>)
        \o <<QUOTE>>

\* an element whose local name is schemeClr (srgbClr), with a prefix or
\* without, is rewritten, and keeps its prefix also when its kind changes
RecognisedByLocalName ==
    (/\ op \in SingleOps
     /\ WellShaped(doc)
     /\ NoCaseClash(colorMapping)
     /\ Len(doc) = 1
     /\ Applies(op, colorMapping, doc[1]) # "")
        => /\ Len(result) >= Len(TagWritten(op, colorMapping, doc[1]))
           /\ SubSeq(result, 1, Len(TagWritten(op, colorMapping, doc[1])))
                  = TagWritten(op, colorMapping, doc[1])

\* an element with another local name is copied as it is
OtherNamesCopied ==
    (op \in SingleOps /\ WellShaped(doc))
        => Framed(result,
                  [i \in 1..Len(doc) |->
                      [free |-> Applies(op, colorMapping, doc[i]) # "",
                       bytes |-> Ser(doc[i])]])

\* C24: an element is treated as a scheme-colour (RGB) reference iff its
\* local name is exactly schemeClr (srgbClr), for any namespace prefix or
\* none; an element with any other local name, one that only contains
\* schemeClr or srgbClr included, is never rewritten; a cross-type
\* conversion keeps the prefix of the element it replaces.
C24_ExactLocalName == RecognisedByLocalName /\ OtherNamesCopied

\* the look-alike elements the patterns take for colour elements
MatchedLookAlikes ==
    {it \in LookAlikeItems : it.kind = "after" \/ it.pfx = ""}

\* what the code does: of the look-alikes only <p:myschemeClr is left alone
C24_PrefixedBeforeOnly ==
    /\ RecognisedByLocalName
    /\ (op \in SingleOps /\ WellShaped(doc) /\ Len(doc) = 1 /\ doc[1] \in LookAlikeItems
        /\ result # xmlContent)
           => doc[1] \in MatchedLookAlikes

\* <a:schemeClrExt val="accent1"/> was rewritten
C24_LookAlikeRewritten ==
    /\ op = "ReplaceSchemeColors"
    /\ Len(doc) = 1
    /\ doc[1].kind = "after" /\ doc[1].pfx = "a" /\ doc[1].name = "schemeClr"
    /\ colorMapping = [x \in {"accent1"} |-> "accent2"]
    /\ result # xmlContent


-----------------------------------------------------------------------------
(* C26 *)

\* the tables ParseColorMapping returns for the arguments of up to two pairs
ParserTables ==
    {ParseColorMapping(a).value :
        a \in {x \in JoinedUpTo(PairPool, ",", 2) : ParseColorMapping(x).err = ""}}

\* what the operation of this state returns when ReplaceSrgbColors builds
\* the table hm
ResultWith(hm) ==
    CASE op = "ReplaceSrgbColors" -> ReplaceSrgbColors(xmlContent, colorMapping, hm)
      [] op = "RewritePart" -> RewritePart(xmlContent, colorMapping, hm)
      [] op = "ReplaceSchemeColors" -> ReplaceSchemeColors(xmlContent, colorMapping)
      [] op = "ReplaceSchemeColorsWithSrgb" ->
            ReplaceSchemeColorsWithSrgb(xmlContent, colorMapping)
      [] OTHER -> result

\* C26: for every table ParseColorMapping can return and every part, the
\* result of the rewriting is determined by the part and the table: no two
\* runs differ, also when the table holds two hex sources that differ only
\* in letter case, with different targets.
C26_Deterministic ==
    (op # "none" /\ colorMapping \in ParserTables)
        => \A hm \in HexMappings(colorMapping) : result = ResultWith(hm)

\* what the code does: the same for the tables without such a pair of sources
C26_DeterministicNoClash ==
    (op # "none" /\ colorMapping \in ParserTables /\ NoCaseClash(colorMapping))
        => \A hm \in HexMappings(colorMapping) : result = ResultWith(hm)

\* a run that wrote accent1 where another run writes the hex target
C26_TwoOutcomes ==
    /\ op = "ReplaceSrgbColors"
    /\ colorMapping = ParseColorMapping("AABBCC:ff0000,aabbcc:accent1").value
    /\ Len(doc) = 1 /\ IsSrgb(doc[1]) /\ doc[1].val = "AABBCC" /\ doc[1].shape = "self"
    /\ hexChoice["AABBCC"] = "accent1"
    /\ \E hm \in HexMappings(colorMapping) : result # ResultWith(hm)


-----------------------------------------------------------------------------
(* C27 *)

\* k passes ValidateSlideNumbers exactly when the slide mapping has the key k
PassesIffKey ==
    \A k \in 1..(MaxSlides + 2) :
        ValidateSlideNumbers(<<k>>) <=> k \in DOMAIN BuildSlideMapping

\* C27: for every presentation, one whose slide list has entries that
\* BuildSlideMapping skips included, a slide number k >= 1 passes
\* ValidateSlideNumbers iff k is a key of the slide mapping; so every
\* validated number contributes its slide part to GetSlideContent, and no
\* slide of the mapping is rejected as out of range.
C27_ValidationAgrees ==
    (inputExists /\ phase # "idle") =>
        /\ PassesIffKey
        /\ (phase \in {"walking", "done"} /\ Len(slides) > 0) =>
               \A i \in 1..Len(slides) :
                   /\ slides[i] \in DOMAIN BuildSlideMapping
                   /\ BuildSlideMapping[slides[i]] \in slideFiles
        /\ (phase = "error" /\ ~ValidateSlideNumbers(slides)
            /\ err = slideNumbersError(slides)) =>
               \A i \in 1..Len(slides) :
                   slides[i] > Cardinality(DOMAIN BuildSlideMapping)
                       => slides[i] \notin DOMAIN BuildSlideMapping

\* what the code does: the same when every skipped entry of the slide list
\* comes after the entries that are kept
C27_AgreesWithoutGaps ==
    (/\ inputExists
     /\ phase # "idle"
     /\ DOMAIN BuildSlideMapping = 1..Cardinality(DOMAIN BuildSlideMapping))
        => /\ PassesIffKey
           /\ (phase \in {"walking", "done"} /\ Len(slides) > 0) =>
                  \A i \in 1..Len(slides) :
                      /\ slides[i] \in DOMAIN BuildSlideMapping
                      /\ BuildSlideMapping[slides[i]] \in slideFiles
           /\ (phase = "error" /\ ~ValidateSlideNumbers(slides)
               /\ err = slideNumbersError(slides)) =>
                  \A i \in 1..Len(slides) :
                      slides[i] > Cardinality(DOMAIN BuildSlideMapping)
                          => slides[i] \notin DOMAIN BuildSlideMapping

\* the first entry has no r:id: slide 1 was validated and no file was
\* processed for it
C27_ValidatedNoSlide ==
    /\ phase = "done"
    /\ sldIdLst[1] = "" /\ sldIdLst[2] = "rId3"
    /\ slides = <<1>>
    /\ DOMAIN BuildSlideMapping = {2}
    /\ slideFiles = {}
    /\ filesProcessed = 0

\* with the same list slide 2, a key of the mapping, was rejected
C27_KeyRejected ==
    /\ phase = "error"
    /\ sldIdLst[1] = "" /\ sldIdLst[2] = "rId3"
    /\ slides = <<1, 2>>
    /\ 2 \in DOMAIN BuildSlideMapping
    /\ err = "slide 2 does not exist (presentation has 1 slides)"


-----------------------------------------------------------------------------
(* C28 *)

\* the theme file names of the master -> theme edges ProcessPPTX resolved
EdgeThemeFiles == {masterToTheme[m] : m \in DOMAIN masterToTheme}

\* entry i of the filter, as shouldProcessFile compares it, is the theme of
\* a master, and that master passes the theme gate
SelectsMaster(i) ==
    /\ themeFiles(themeFilter)[i] \in EdgeThemeFiles
    /\ \E m \in DOMAIN masterToTheme :
          /\ masterToTheme[m] = themeFiles(themeFilter)[i]
          /\ shouldProcessFile("ppt/slideMasters/" \o m, themeFilter, layoutToMaster,
                               masterToTheme)

\* C28: for every filter entry that validateThemeFilter accepts, without
\* the suffix (theme1), with it (theme1.xml) or with a repeated suffix
\* (theme1.xml.xml), the name shouldProcessFile derives from the entry is
\* the theme file name of at least one master -> theme edge, so an accepted
\* entry selects at least that master.
C28_SameNormalisation ==
    (phase \in {"walking", "done"} /\ Len(themeFilter) > 0)
        => \A i \in 1..Len(themeFilter) : SelectsMaster(i)

\* what the code does: the same for the entries with at most one suffix
C28_SameForOneSuffix ==
    (phase \in {"walking", "done"} /\ Len(themeFilter) > 0)
        => \A i \in 1..Len(themeFilter) :
               ~HasSuffix(TrimSuffix(themeFilter[i], ".xml"), ".xml") => SelectsMaster(i)

\* theme1.xml.xml passed the validation and the run ended with no master,
\* layout or slide of theme 1 written
C28_AcceptedSelectsNothing ==
    /\ phase = "done"
    /\ themeFilter = <<"theme1.xml.xml">>
    /\ "theme1.xml" \in EdgeThemeFiles
    /\ validateThemeFilter(themeFilter, masterToTheme)
    /\ "ppt/slideMasters/slideMaster1.xml" \notin written


-----------------------------------------------------------------------------
(* C29 *)

\* the table holds scheme sources only: E its scheme -> scheme entries, H
\* its scheme -> hex entries; the part holds colour elements, none with a
\* source of H as its value
EAndH ==
    /\ op = "ReplaceSchemeColorsWithSrgb"
    /\ DOMAIN colorMapping \subseteq ValidSchemeColors
    /\ DOMAIN schemeToHexMapping(colorMapping) # {}
    /\ \A i \in 1..Len(doc) :
          /\ doc[i] \in PlainItems \cup OddShapeItems
          /\ doc[i].val \notin DOMAIN schemeToHexMapping(colorMapping)

\* C29: in ReplaceSchemeColorsWithSrgb, whether a scheme -> scheme entry
\* rewrites a scheme-colour element does not depend on the rest of the
\* table: each element whose value is a source of E has the same result
\* under E \cup H as under E alone, also when val is not the first
\* attribute of the tag or the closing tag of a container is missing.
C29_EntryIndependent ==
    EAndH => result = ReplaceSchemeColorsWithSrgb(xmlContent,
                                                  schemeToSchemeMapping(colorMapping))

\* what the code does: the same for the elements with val as their first
\* attribute and, for a container, their closing tag
C29_IndependentWellShaped ==
    (EAndH /\ WellShaped(doc))
        => result = ReplaceSchemeColorsWithSrgb(xmlContent,
                                                schemeToSchemeMapping(colorMapping))

\* <a:schemeClr id="1" val="accent1"/> was left alone by the table
\* {accent1: accent2, accent2: AABBCC}, and is rewritten by {accent1: accent2}
C29_LeftAlone ==
    /\ EAndH
    /\ Len(doc) = 1 /\ doc[1].shape = "attr"
    /\ colorMapping = [x \in {"accent1", "accent2"} |->
                          IF x = "accent1" THEN "accent2" ELSE "AABBCC"]
    /\ result = xmlContent
    /\ ReplaceSchemeColorsWithSrgb(xmlContent, schemeToSchemeMapping(colorMapping))
           # xmlContent


-----------------------------------------------------------------------------
(* C30 *)

ThemeOf(f) == doc[CHOOSE n \in 1..Len(After) : After[n] = f]

\* the theme parts the loop has come to that the filter selects and that
\* have a named colour scheme
Selected(f) ==
    /\ f \in visited
    /\ Len(themeFilter) = 0 \/ InFilter(Base(f), themeFiles(themeFilter))
    /\ ThemeOf(f).scheme \notin {"", "none"}

\* every file is as it was, but for the name of the colour scheme of the
\* selected theme parts the loop has come to
OnlySchemeName ==
    \A f \in files :
        fileContent[f] =
            IF Selected(f)
            THEN ThemeXML([ThemeOf(f) EXCEPT !.scheme = arg])
            ELSE input[f]

\* C30: RenameColorScheme changes, in each selected theme part, only the
\* name attribute of the clrScheme element: every other byte, the name of
\* the theme element and any other name attribute included, also when its
\* value is the current name of the colour scheme, is unchanged; the theme
\* parts the filter does not select are unchanged.
C30_OnlySchemeName ==
    phase \in {"renaming", "done"} => OnlySchemeName

\* what the code does: the same when the theme element is not named as the
\* colour scheme is
C30_OnlySchemeNameDistinct ==
    (/\ phase \in {"renaming", "done"}
     /\ \A n \in 1..Len(After) : doc[n].theme # doc[n].scheme)
        => OnlySchemeName

\* the theme and its colour scheme are both named Office: the theme was
\* renamed, the colour scheme was not
C30_ThemeRenamed ==
    /\ phase = "done"
    /\ arg = "Brand"
    /\ themeFilter = <<"theme1">>
    /\ doc[1] = [theme |-> "Office", scheme |-> "Office", font |-> "Arial"]
    /\ fileContent["ppt/theme/theme1.xml"] =
           ThemeXML([theme |-> "Brand", scheme |-> "Office", font |-> "Arial"])
    /\ fileContent["ppt/theme/theme2.xml"] = input["ppt/theme/theme2.xml"]
    /\ filesProcessed = 1


====
